---- MODULE Spec2Model ----
(***************************************************************************)
(* Model of the LangGraph evaluator of EduQuest Signal Scout:              *)
(*   graphs/state.py, graphs/nodes.py, graphs/evaluator_graph.py,          *)
(*   scripts/evaluate_with_langgraph.py, src/config.py, src/llm.py.        *)
(*                                                                         *)
(* Representation.                                                         *)
(*   - A Python str that the code searches in (chunk text, evidence) is a  *)
(*     sequence of characters; other strings are TLA+ strings.             *)
(*   - An optional value (a NotRequired key, or None) is a sequence of     *)
(*     length 0 (absent) or 1 (present).                                   *)
(*   - A Python float is [nan, c] with c in hundredths; NaN compares       *)
(*     false with everything, as in IEEE 754.                              *)
(*   - A raw JSON value of the model's answer keeps its JSON type in the   *)
(*     field t, so that float(), int() and "in" can fail as Python does.   *)
(***************************************************************************)
EXTENDS Integers, Sequences, FiniteSets, TLC

\* --------------------------------------------------------------- variables
VARIABLES
  chunks,      \* the units handed to the evaluator, in input order
  state,       \* state[u]: the EvaluatorState of unit u's traversal
  pc,          \* pc[u]: the node unit u's traversal runs next, END or RAISED
  cresp,       \* cresp[u]: what the model answered unit u's classify call
  sresp,       \* sresp[u]: what the model answered unit u's score call
  trace,       \* trace[u]: the nodes unit u's traversal has executed, in order
  idx,         \* main's loop position in chunks_to_evaluate
  eval_file,   \* the records main has written to evaluations.jsonl
  kept_count,
  error_count,
  first_run,   \* first_run[u]: how unit u's first traversal ended, once it is re-run
  writes,      \* writes[u]: the keys of the update each executed node returned
  signals,     \* the list handed to deduplicate_signals
  deduped,     \* what deduplicate_signals returned, once it has
  content,     \* response.content of an llm.invoke call
  parsed,      \* what invoke_llm_json made of content, once it has
  llm_calls,   \* llm_calls[u]: the calls of invoke_llm_json unit u's traversal made
  should_keep, \* what should_keep_signal returned, once it has
  chunker,     \* the locals of chunk_text
  weekly,      \* the locals of run_weekly's main and what its steps did
  run          \* the chunks file and the options and progress of a run of main

vars == <<chunks, state, pc, cresp, sresp, trace, idx, eval_file, kept_count,
          error_count, first_run, writes, signals, deduped, content, parsed,
          llm_calls, should_keep, chunker, weekly, run>>

\* the state of the functions that run outside a traversal
scripts == <<should_keep, chunker, weekly, run>>

tools == <<signals, deduped, content, parsed, scripts>>

driver == <<idx, eval_file, kept_count, error_count, first_run, tools>>

Units == DOMAIN chunks

\* ------------------------------------------------------------------ bounds
MaxTextLen == 2
MaxSnippetLen == 2
NumChunks == 2
MaxSignals == 3

\* --------------------------------------------------------------- constants
\* settings.confidence_threshold = 0.7, in hundredths
CONFIDENCE_THRESHOLD == 70
\* settings.score_threshold = 50
SCORE_THRESHOLD == 50
\* deduplicate_signals: evidence_snippet[:100]
DEDUP_PREFIX == 100

\* ------------------------------------------------------------ basic values
Chars == {"a", "A"}

SeqsUpTo(S, n) == UNION {[1..k -> S] : k \in 0..n}

Texts == SeqsUpTo(Chars, MaxTextLen)

Snippets == SeqsUpTo(Chars, MaxSnippetLen)

None == <<>>

Some(x) == <<x>>

\* graphs/state.py IntentCategory
IntentCategory ==
  {"curriculum_adoption", "instructional_materials", "pilot_evaluation",
   "budget_allocation", "vendor_dissatisfaction", "learning_gaps",
   "personalization_pbl", "strategic_plan", "teacher_workload", "none"}

\* graphs/state.py NextStep
NextStep == {"reach_out_now", "research_more", "monitor"}

\* ------------------------------------------------------------ Python values
\* a float: hundredths, or NaN
Float(c) == [nan |-> FALSE, c |-> c]

NaN == [nan |-> TRUE, c |-> 0]

\* Python's  a < b  on floats
FloatLt(a, b) == ~a.nan /\ ~b.nan /\ a.c < b.c

\* mutant: the search ignores case
Lower(s) == [k \in DOMAIN s |-> IF s[k] = "A" THEN "a" ELSE s[k]]

IsSubstring_ignoring_case(s, t) ==
  \E i \in 0..(Len(t) - Len(s)) : SubSeq(Lower(t), i + 1, i + Len(s)) = Lower(s)

\* mutant: an empty snippet is found in no text
IsSubstring_nonempty(s, t) ==
  /\ s # <<>>
  /\ \E i \in 0..(Len(t) - Len(s)) : SubSeq(t, i + 1, i + Len(s)) = s

\* Python's  snippet in chunk_text  for two str
IsSubstring(s, t) ==
  \E i \in 0..(Len(t) - Len(s)) : SubSeq(t, i + 1, i + Len(s)) = s

\* raw JSON values: t is the JSON type the value has after json.loads
JNum(c) == [t |-> "num", nan |-> FALSE, c |-> c]

JNaN == [t |-> "num", nan |-> TRUE, c |-> 0]

JNumStr(c) == [t |-> "numstr", nan |-> FALSE, c |-> c]

JBadStr == [t |-> "badstr", nan |-> FALSE, c |-> 0]

JNull == [t |-> "null", nan |-> FALSE, c |-> 0]

JStr(s) == [t |-> "str", s |-> s]

JNonStr == [t |-> "nonstr", s |-> <<>>]

\* float(x): a number or a numeric string converts, anything else raises
PyFloatRaises(x) == x.t \notin {"num", "numstr"}

PyFloat(x) == [nan |-> x.nan, c |-> x.c]

\* int(x) on a raw value whose c is in tenths: truncation toward zero for a
\* number; NaN, a string that is not an integer literal and None raise
PyIntRaises(x) ==
  \/ x.t \notin {"num", "numstr"}
  \/ x.nan
  \/ (x.t = "numstr" /\ x.c % 10 # 0)

PyInt(x) == IF x.c >= 0 THEN x.c \div 10 ELSE -((-x.c) \div 10)

\* ------------------------------------------------------------------ chunks
\* graphs/state.py ChunkData, as load_chunks builds it (every key present)
ChunkData(id, text, date) ==
  [artifact_id |-> "artifact", chunk_id |-> id, district |-> "district",
   meeting_date |-> date, source_url |-> "url", board_page_url |-> "board",
   text |-> text]

MeetingDates == {None, Some("2026-01-15")}

\* ------------------------------------------------- the external model call
\* What invoke_llm_json gives classify_node: it raises (ok = FALSE, err the
\* exception: a transport error, or ValueError for a payload that is not
\* JSON), or it returns the parsed payload: an object with the keys in has,
\* or some other JSON value (isobj = FALSE).
required_fields == <<"category", "confidence", "evidence_snippet", "rationale">>

ClassifyObject(has, cat, conf, ev) ==
  [ok |-> TRUE, err |-> "", isobj |-> TRUE, has |-> has, category |-> cat,
   confidence |-> conf, evidence_snippet |-> ev, rationale |-> "rationale"]

ClassifyRaise(err) ==
  [ok |-> FALSE, err |-> err, isobj |-> FALSE, has |-> {}, category |-> "none",
   confidence |-> JNull, evidence_snippet |-> JNonStr, rationale |-> ""]

ClassifyNonObject ==
  [ok |-> TRUE, err |-> "", isobj |-> FALSE, has |-> {}, category |-> "none",
   confidence |-> JNull, evidence_snippet |-> JNonStr, rationale |-> ""]

AllFields == {required_fields[k] : k \in 1..Len(required_fields)}

LlmErrors == {"timeout", "LLM response is not valid JSON"}

ConfidenceRaws ==
  {JNum(69), JNum(70), JNum(95), JNum(150), JNaN, JNumStr(70), JBadStr}

EvidenceRaws == {JStr(s) : s \in Snippets} \cup {JNonStr}

CategoryRaws == {"none", "pilot_evaluation", "not_a_category"}

ClassifyResponses ==
  {ClassifyRaise(e) : e \in LlmErrors}
  \cup {ClassifyNonObject}
  \cup {ClassifyObject(h, "pilot_evaluation", JNum(95), JStr(<<>>)) :
          h \in (SUBSET AllFields) \ {AllFields}}
  \cup {ClassifyObject(AllFields, cat, conf, ev) :
          cat \in CategoryRaws, conf \in ConfidenceRaws, ev \in EvidenceRaws}

\* the responses the driver and interleaving specifications draw from
FewClassifyResponses ==
  {ClassifyRaise("timeout"),
   ClassifyObject(AllFields \ {"confidence"}, "pilot_evaluation", JNum(95), JStr(<<>>)),
   ClassifyObject(AllFields, "pilot_evaluation", JNum(95), JNonStr),
   ClassifyObject(AllFields, "none", JNum(95), JStr(<<"a">>)),
   ClassifyObject(AllFields, "pilot_evaluation", JNum(70), JStr(<<"a">>)),
   ClassifyObject(AllFields, "pilot_evaluation", JNum(69), JStr(<<"a">>))}

\* What invoke_llm_json gives score_node.
score_fields == <<"opportunity_score", "score_breakdown", "summary", "recommended_next_step">>

breakdown_fields == <<"intent_strength", "time_window", "eduquest_fit", "evidence_quality">>

BreakdownNames == {breakdown_fields[k] : k \in 1..Len(breakdown_fields)}

\* a score_breakdown value: an object holding some of the four sub-fields,
\* or a JSON value that is no object (null, a number)
Breakdown(sub) == [isobj |-> TRUE, sub |-> sub]

BreakdownNonObject == [isobj |-> FALSE, sub |-> [n \in BreakdownNames |-> None]]

BreakdownRaws ==
  {Breakdown([n \in BreakdownNames |-> None]),
   Breakdown([n \in BreakdownNames |->
                IF n = "intent_strength" THEN Some(JNum(200)) ELSE None]),
   Breakdown([n \in BreakdownNames |-> Some(JNum(250))]),
   Breakdown([n \in BreakdownNames |->
                IF n = "time_window" THEN Some(JBadStr) ELSE Some(JNum(100))]),
   BreakdownNonObject}

ScoreObject(has, score, bd, step) ==
  [ok |-> TRUE, err |-> "", isobj |-> TRUE, has |-> has,
   opportunity_score |-> score, score_breakdown |-> bd, summary |-> "summary",
   recommended_next_step |-> step]

ScoreRaise(err) ==
  [ok |-> FALSE, err |-> err, isobj |-> FALSE, has |-> {},
   opportunity_score |-> JNull, score_breakdown |-> BreakdownNonObject,
   summary |-> "", recommended_next_step |-> ""]

ScoreNonObject ==
  [ok |-> TRUE, err |-> "", isobj |-> FALSE, has |-> {},
   opportunity_score |-> JNull, score_breakdown |-> BreakdownNonObject,
   summary |-> "", recommended_next_step |-> ""]

AllScoreFields == {score_fields[k] : k \in 1..Len(score_fields)}

ScoreRaws ==
  {JNum(100), JNum(499), JNum(500), JNum(620), JNumStr(500), JBadStr, JNaN}

StepRaws == {"reach_out_now", "monitor", "call_later"}

ScoreResponses ==
  {ScoreRaise(e) : e \in LlmErrors}
  \cup {ScoreNonObject}
  \cup {ScoreObject(AllScoreFields \ {f}, JNum(620),
                    Breakdown([n \in BreakdownNames |-> Some(JNum(250))]),
                    "reach_out_now") : f \in AllScoreFields}
  \cup {ScoreObject(AllScoreFields, sc, bd, st) :
          sc \in ScoreRaws, bd \in BreakdownRaws, st \in StepRaws}

FewScoreResponses ==
  {ScoreRaise("timeout"),
   ScoreObject(AllScoreFields, JNum(620),
               Breakdown([n \in BreakdownNames |-> Some(JNum(250))]), "monitor"),
   ScoreObject(AllScoreFields, JNum(100),
               Breakdown([n \in BreakdownNames |-> None]), "reach_out_now"),
   ScoreObject(AllScoreFields, JNum(100),
               Breakdown([n \in BreakdownNames |-> None]), "monitor")}

Timestamps == {"t1", "t2"}

\* ------------------------------------------------------------------- state
\* evaluate_chunk's initial_state: classification, scoring and signal_record
\* are NotRequired keys and start absent
initial_state(chunk) ==
  [chunk |-> chunk, classification |-> None, scoring |-> None,
   errors |-> <<>>, keep |-> FALSE, signal_record |-> None]

\* LangGraph's merge of a node's partial update into the state: a key of the
\* update replaces the state's value, every other key is kept
Merge(s, update) ==
  [k \in DOMAIN s |-> IF k \in DOMAIN update THEN update[k] ELSE s[k]]

\* an entry of errors: f"{node}: {message}", or the bare message
Error(node, message) == <<node, message>>

\* ------------------------------------------------------------------- nodes
\* the exception classify_node's try block raises on result r, if any
ClassifyException(r) ==
  IF ~r.ok THEN Some(r.err)
  ELSE IF ~r.isobj THEN Some("result is not an object")
  ELSE IF \E k \in 1..Len(required_fields) : required_fields[k] \notin r.has
    THEN LET k == CHOOSE j \in 1..Len(required_fields) :
                    /\ required_fields[j] \notin r.has
                    /\ \A i \in 1..(j - 1) : required_fields[i] \in r.has
         IN Some("Missing required field in classification: " \o required_fields[k])
  ELSE IF PyFloatRaises(r.confidence) THEN Some("could not convert to float")
  ELSE None

\* mutant: the except branch returns no update
classify_node_swallows(s, r) ==
  IF ClassifyException(r) # None
    THEN <<>>
    ELSE [classification |->
            Some([category |-> r.category,
                  confidence |-> PyFloat(r.confidence),
                  evidence_snippet |-> r.evidence_snippet,
                  rationale |-> r.rationale])]

\* mutant: errors is one list shared by every traversal
classify_node_shared_errors(s, r) ==
  IF ClassifyException(r) # None
    THEN [errors |-> [k \in 1..Cardinality({u \in Units : state[u].errors # <<>>}) |->
                        Error("classify_node", "shared")]
                     \o <<Error("classify_node", ClassifyException(r)[1])>>]
    ELSE [classification |->
            Some([category |-> r.category,
                  confidence |-> PyFloat(r.confidence),
                  evidence_snippet |-> r.evidence_snippet,
                  rationale |-> r.rationale])]

classify_node(s, r) ==
  IF ClassifyException(r) # None
    THEN [errors |-> s.errors \o <<Error("classify_node", ClassifyException(r)[1])>>]
    ELSE [classification |->
            Some([category |-> r.category,
                  confidence |-> PyFloat(r.confidence),
                  evidence_snippet |-> r.evidence_snippet,
                  rationale |-> r.rationale])]

\* evidence_validation_node has no try block:  snippet not in chunk_text
\* raises TypeError when snippet is not a str
evidence_validation_raises(s) ==
  /\ s.classification # None
  /\ s.classification[1].evidence_snippet.t # "str"

\* mutant: a failed validation leaves keep to the terminal node
evidence_validation_node_no_keep(s) ==
  IF s.classification = None
    THEN [errors |-> s.errors \o <<Error("", "No classification to validate")>>]
  ELSE IF ~IsSubstring(s.classification[1].evidence_snippet.s, s.chunk.text)
    THEN [errors |-> s.errors
                     \o <<Error("", "Evidence snippet not found verbatim in chunk text")>>]
  ELSE <<>>

\* mutant: a passed validation marks the classification
evidence_validation_node_marks(s) ==
  IF s.classification = None
    THEN [errors |-> s.errors \o <<Error("", "No classification to validate")>>,
          keep |-> FALSE]
  ELSE IF ~IsSubstring(s.classification[1].evidence_snippet.s, s.chunk.text)
    THEN [errors |-> s.errors
                     \o <<Error("", "Evidence snippet not found verbatim in chunk text")>>,
          keep |-> FALSE]
  ELSE [classification |-> Some([s.classification[1] EXCEPT !.rationale = "validated"])]

\* mutant: the errors list is started anew
evidence_validation_node_resets_errors(s) ==
  IF s.classification = None
    THEN [errors |-> <<Error("", "No classification to validate")>>,
          keep |-> FALSE]
  ELSE IF ~IsSubstring(s.classification[1].evidence_snippet.s, s.chunk.text)
    THEN [errors |-> <<Error("", "Evidence snippet not found verbatim in chunk text")>>,
          keep |-> FALSE]
  ELSE <<>>

evidence_validation_node(s) ==
  IF s.classification = None
    THEN [errors |-> s.errors \o <<Error("", "No classification to validate")>>,
          keep |-> FALSE]
  ELSE IF ~IsSubstring(s.classification[1].evidence_snippet.s, s.chunk.text)
    THEN [errors |-> s.errors
                     \o <<Error("", "Evidence snippet not found verbatim in chunk text")>>,
          keep |-> FALSE]
  ELSE <<>>

\* int(result.get("score_breakdown", {}).get(name, 0))
BreakdownRaises(r, name) ==
  /\ "score_breakdown" \in r.has
  /\ \/ ~r.score_breakdown.isobj
     \/ /\ r.score_breakdown.sub[name] # None
        /\ PyIntRaises(r.score_breakdown.sub[name][1])

\* mutant: a missing sub-score counts as 1
BreakdownValue_default_one(r, name) ==
  IF "score_breakdown" \notin r.has \/ r.score_breakdown.sub[name] = None
    THEN 1
    ELSE PyInt(r.score_breakdown.sub[name][1])

BreakdownValue(r, name) ==
  IF "score_breakdown" \notin r.has \/ r.score_breakdown.sub[name] = None
    THEN 0
    ELSE PyInt(r.score_breakdown.sub[name][1])

\* the exception score_node's try block raises on result r, if any
ScoreException(r) ==
  IF ~r.ok THEN Some(r.err)
  ELSE IF ~r.isobj THEN Some("result is not an object")
  ELSE IF \E n \in BreakdownNames : BreakdownRaises(r, n)
    THEN Some("invalid score_breakdown")
  ELSE IF "opportunity_score" \notin r.has THEN Some("'opportunity_score'")
  ELSE IF PyIntRaises(r.opportunity_score) THEN Some("invalid literal for int()")
  ELSE IF "summary" \notin r.has THEN Some("'summary'")
  ELSE IF "recommended_next_step" \notin r.has THEN Some("'recommended_next_step'")
  ELSE None

\* mutant: the except branch returns no update
score_node_swallows(s, r) ==
  IF ScoreException(r) # None
    THEN <<>>
    ELSE [scoring |->
            Some([opportunity_score |-> PyInt(r.opportunity_score),
                  score_breakdown |-> [n \in BreakdownNames |-> BreakdownValue(r, n)],
                  summary |-> r.summary,
                  recommended_next_step |-> r.recommended_next_step])]

\* mutant: the except branch also writes an empty scoring
score_node_partial(s, r) ==
  IF ScoreException(r) # None
    THEN [errors |-> s.errors \o <<Error("score_node", ScoreException(r)[1])>>,
          scoring |-> Some([opportunity_score |-> 0,
                            score_breakdown |-> [n \in BreakdownNames |-> 0],
                            summary |-> "",
                            recommended_next_step |-> "monitor"])]
    ELSE [scoring |->
            Some([opportunity_score |-> PyInt(r.opportunity_score),
                  score_breakdown |-> [n \in BreakdownNames |-> BreakdownValue(r, n)],
                  summary |-> r.summary,
                  recommended_next_step |-> r.recommended_next_step])]

score_node(s, r) ==
  IF ScoreException(r) # None
    THEN [errors |-> s.errors \o <<Error("score_node", ScoreException(r)[1])>>]
    ELSE [scoring |->
            Some([opportunity_score |-> PyInt(r.opportunity_score),
                  score_breakdown |-> [n \in BreakdownNames |-> BreakdownValue(r, n)],
                  summary |-> r.summary,
                  recommended_next_step |-> r.recommended_next_step])]

\* mutant: summary is taken from the classification's rationale
normalize_node_wrong_summary(s, now) ==
  [signal_record |->
     Some([chunk_id |-> s.chunk.chunk_id,
           artifact_id |-> s.chunk.artifact_id,
           district |-> s.chunk.district,
           meeting_date |-> s.chunk.meeting_date,
           source_url |-> s.chunk.source_url,
           board_page_url |-> s.chunk.board_page_url,
           category |-> s.classification[1].category,
           confidence |-> s.classification[1].confidence,
           opportunity_score |-> s.scoring[1].opportunity_score,
           evidence_snippet |-> s.classification[1].evidence_snippet,
           summary |-> s.classification[1].rationale,
           recommended_next_step |-> s.scoring[1].recommended_next_step,
           rationale |-> s.classification[1].rationale,
           generated_at |-> now]),
   keep |-> TRUE]

normalize_node(s, now) ==
  [signal_record |->
     Some([chunk_id |-> s.chunk.chunk_id,
           artifact_id |-> s.chunk.artifact_id,
           district |-> s.chunk.district,
           meeting_date |-> s.chunk.meeting_date,
           source_url |-> s.chunk.source_url,
           board_page_url |-> s.chunk.board_page_url,
           category |-> s.classification[1].category,
           confidence |-> s.classification[1].confidence,
           opportunity_score |-> s.scoring[1].opportunity_score,
           evidence_snippet |-> s.classification[1].evidence_snippet,
           summary |-> s.scoring[1].summary,
           recommended_next_step |-> s.scoring[1].recommended_next_step,
           rationale |-> s.classification[1].rationale,
           generated_at |-> now]),
   keep |-> TRUE]

\* mutant: drop marks the chunk as kept
drop_node_keeps(s) == [keep |-> TRUE]

drop_node(s) == [keep |-> FALSE]

error_handler_node(s) == [keep |-> FALSE]

\* mutant: the error branches return a name the graph does not map
decision_router_unmapped(s) ==
  IF s.errors # <<>> THEN "error"
  ELSE IF s.classification = None THEN "error"
  ELSE IF s.classification[1].category = "none" THEN "drop"
  ELSE IF FloatLt(s.classification[1].confidence, Float(CONFIDENCE_THRESHOLD))
    THEN "drop"
  ELSE "score"

\* mutant: the threshold itself is dropped (<= for <)
decision_router_exclusive(s) ==
  IF s.errors # <<>> THEN "error_handler"
  ELSE IF s.classification = None THEN "error_handler"
  ELSE IF s.classification[1].category = "none" THEN "drop"
  ELSE IF ~s.classification[1].confidence.nan
          /\ s.classification[1].confidence.c <= CONFIDENCE_THRESHOLD
    THEN "drop"
  ELSE "score"

\* mutant: no category check
decision_router_no_category(s) ==
  IF s.errors # <<>> THEN "error_handler"
  ELSE IF s.classification = None THEN "error_handler"
  ELSE IF FloatLt(s.classification[1].confidence, Float(CONFIDENCE_THRESHOLD))
    THEN "drop"
  ELSE "score"

\* ----------------------------------------------------------------- routers
decision_router(s) ==
  IF s.errors # <<>> THEN "error_handler"
  ELSE IF s.classification = None THEN "error_handler"
  ELSE IF s.classification[1].category = "none" THEN "drop"
  ELSE IF FloatLt(s.classification[1].confidence, Float(CONFIDENCE_THRESHOLD))
    THEN "drop"
  ELSE "score"

\* mutant: the score threshold is exclusive (> for >=)
final_decision_router_exclusive(s) ==
  IF s.errors # <<>> THEN "error_handler"
  ELSE IF s.scoring = None THEN "error_handler"
  ELSE IF \/ s.scoring[1].opportunity_score > SCORE_THRESHOLD
          \/ s.scoring[1].recommended_next_step = "reach_out_now"
    THEN "normalize"
  ELSE "drop"

\* mutant: no reach_out_now override
final_decision_router_no_override(s) ==
  IF s.errors # <<>> THEN "error_handler"
  ELSE IF s.scoring = None THEN "error_handler"
  ELSE IF s.scoring[1].opportunity_score >= SCORE_THRESHOLD THEN "normalize"
  ELSE "drop"

\* mutant: and for or
final_decision_router_and(s) ==
  IF s.errors # <<>> THEN "error_handler"
  ELSE IF s.scoring = None THEN "error_handler"
  ELSE IF /\ s.scoring[1].opportunity_score >= SCORE_THRESHOLD
          /\ s.scoring[1].recommended_next_step = "reach_out_now"
    THEN "normalize"
  ELSE "drop"

\* mutant: the score policy is tested before the errors
final_decision_router_errors_last(s) ==
  IF s.scoring # None
       /\ \/ s.scoring[1].opportunity_score >= SCORE_THRESHOLD
          \/ s.scoring[1].recommended_next_step = "reach_out_now"
    THEN "normalize"
  ELSE IF s.errors # <<>> THEN "error_handler"
  ELSE IF s.scoring = None THEN "error_handler"
  ELSE "drop"

final_decision_router(s) ==
  IF s.errors # <<>> THEN "error_handler"
  ELSE IF s.scoring = None THEN "error_handler"
  ELSE IF \/ s.scoring[1].opportunity_score >= SCORE_THRESHOLD
          \/ s.scoring[1].recommended_next_step = "reach_out_now"
    THEN "normalize"
  ELSE "drop"

\* ----------------------------------------------------------- state machine
TerminalNodes == {"normalize", "drop", "error_handler"}

\* mutant: an error after score is wired back to classify
build_evaluator_graph_retries(n, s) ==
  CASE n = "START" -> "classify"
    [] n = "classify" -> "validate_evidence"
    [] n = "validate_evidence" -> decision_router(s)
    [] n = "score" -> IF final_decision_router(s) = "error_handler"
                        THEN "classify"
                        ELSE final_decision_router(s)
    [] n \in TerminalNodes -> "END"

\* mutant: a failed classify is wired straight to error_handler
build_evaluator_graph_skips_validation(n, s) ==
  CASE n = "START" -> "classify"
    [] n = "classify" -> IF s.errors # <<>> THEN "error_handler" ELSE "validate_evidence"
    [] n = "validate_evidence" -> decision_router(s)
    [] n = "score" -> final_decision_router(s)
    [] n \in TerminalNodes -> "END"

\* build_evaluator_graph's edges: the node that follows node n, given the
\* state s after n's update was merged
build_evaluator_graph(n, s) ==
  CASE n = "START" -> "classify"
    [] n = "classify" -> "validate_evidence"
    [] n = "validate_evidence" -> decision_router(s)
    [] n = "score" -> final_decision_router(s)
    [] n \in TerminalNodes -> "END"

\* one node of unit u's traversal runs and returns update
Step(u, n, update) ==
  /\ state' = [state EXCEPT ![u] = Merge(@, update)]
  /\ pc' = [pc EXCEPT ![u] = build_evaluator_graph(n, Merge(state[u], update))]
  /\ trace' = [trace EXCEPT ![u] = Append(@, n)]
  /\ writes' = [writes EXCEPT ![u] = Append(@, DOMAIN update)]

\* mutant: the errors list of the previous call is reused
Invoke_keeps_errors(u) ==
  /\ pc[u] = "START"
  /\ state' = [state EXCEPT ![u] =
                 [initial_state(chunks[u]) EXCEPT !.errors = state[u].errors]]
  /\ pc' = [pc EXCEPT ![u] = build_evaluator_graph("START", state'[u])]
  /\ UNCHANGED <<chunks, cresp, sresp, trace, writes, llm_calls, driver>>

\* evaluate_chunk up to the graph's START edge
Invoke(u) ==
  /\ pc[u] = "START"
  /\ state' = [state EXCEPT ![u] = initial_state(chunks[u])]
  /\ pc' = [pc EXCEPT ![u] = build_evaluator_graph("START", state'[u])]
  /\ UNCHANGED <<chunks, cresp, sresp, trace, writes, llm_calls, driver>>

Classify(u, responses) ==
  /\ pc[u] = "classify"
  /\ \E r \in responses :
       /\ Step(u, "classify", classify_node(state[u], r))
       /\ cresp' = [cresp EXCEPT ![u] = Some(r)]
  /\ llm_calls' = [llm_calls EXCEPT ![u] = @ + 1]
  /\ UNCHANGED <<chunks, sresp, driver>>

\* the exception of evidence_validation_node leaves graph.invoke unhandled
ValidateEvidence(u) ==
  /\ pc[u] = "validate_evidence"
  /\ IF evidence_validation_raises(state[u])
       THEN /\ pc' = [pc EXCEPT ![u] = "RAISED"]
            /\ trace' = [trace EXCEPT ![u] = Append(@, "validate_evidence")]
            /\ UNCHANGED <<state, writes>>
       ELSE Step(u, "validate_evidence", evidence_validation_node(state[u]))
  /\ UNCHANGED <<chunks, cresp, sresp, llm_calls, driver>>

\* "score" is among the nodes in t
Executed_score_before(t) == \E i \in DOMAIN t : t[i] = "score"

\* mutant: a failed score call is made again
Score_retries(u, responses) ==
  /\ pc[u] = "score"
  /\ \E r \in responses :
       /\ state' = [state EXCEPT ![u] = Merge(@, score_node(state[u], r))]
       /\ pc' = [pc EXCEPT ![u] =
                   IF ScoreException(r) # None /\ llm_calls[u] < 3
                     THEN "score"
                     ELSE build_evaluator_graph("score", Merge(state[u], score_node(state[u], r)))]
       /\ trace' = [trace EXCEPT ![u] =
                      IF Executed_score_before(trace[u]) THEN @ ELSE Append(@, "score")]
       /\ writes' = [writes EXCEPT ![u] =
                       IF Executed_score_before(trace[u]) THEN @
                       ELSE Append(@, DOMAIN score_node(state[u], r))]
       /\ sresp' = [sresp EXCEPT ![u] = Some(r)]
  /\ llm_calls' = [llm_calls EXCEPT ![u] = @ + 1]
  /\ UNCHANGED <<chunks, cresp, driver>>

Score(u, responses) ==
  /\ pc[u] = "score"
  /\ \E r \in responses :
       /\ Step(u, "score", score_node(state[u], r))
       /\ sresp' = [sresp EXCEPT ![u] = Some(r)]
  /\ llm_calls' = [llm_calls EXCEPT ![u] = @ + 1]
  /\ UNCHANGED <<chunks, cresp, driver>>

Normalize(u, times) ==
  /\ pc[u] = "normalize"
  /\ \E now \in times : Step(u, "normalize", normalize_node(state[u], now))
  /\ UNCHANGED <<chunks, cresp, sresp, llm_calls, driver>>

Drop(u) ==
  /\ pc[u] = "drop"
  /\ Step(u, "drop", drop_node(state[u]))
  /\ UNCHANGED <<chunks, cresp, sresp, llm_calls, driver>>

ErrorHandler(u) ==
  /\ pc[u] = "error_handler"
  /\ Step(u, "error_handler", error_handler_node(state[u]))
  /\ UNCHANGED <<chunks, cresp, sresp, llm_calls, driver>>

\* the traversals of the units in cs, none started, and main's locals
InitTraversals(cs) ==
  /\ chunks = cs
  /\ state = [u \in DOMAIN cs |-> initial_state(cs[u])]
  /\ pc = [u \in DOMAIN cs |-> "START"]
  /\ cresp = [u \in DOMAIN cs |-> None]
  /\ sresp = [u \in DOMAIN cs |-> None]
  /\ trace = [u \in DOMAIN cs |-> <<>>]
  /\ idx = 1
  /\ eval_file = <<>>
  /\ kept_count = 0
  /\ error_count = 0
  /\ first_run = [u \in DOMAIN cs |-> None]
  /\ writes = [u \in DOMAIN cs |-> <<>>]
  /\ llm_calls = [u \in DOMAIN cs |-> 0]

\* chunk_text was not called
ChunkerIdle ==
  [pc |-> "idle", total_tokens |-> 0, chunk_size |-> 1, overlap |-> 0,
   start |-> 0, chunks |-> <<>>]

\* run_weekly was not started
WeeklyIdle ==
  [pc |-> "idle", skip_discover |-> FALSE, limit_districts |-> 0, limit_docs |-> 0,
   limit_pdfs |-> 0, steps |-> <<>>, steps_run |-> 0, steps_failed |-> 0,
   artifacts_csv |-> FALSE, exit_code |-> None]

\* no run of main over a chunks file
RunIdle ==
  [chunks_file |-> <<>>, status |-> "idle", prev |-> "idle", reprocess |-> FALSE,
   limit |-> 0, n |-> 0, before |-> 0]

\* none of the other scripts' functions was called
InitScripts ==
  /\ should_keep = None
  /\ chunker = ChunkerIdle
  /\ weekly = WeeklyIdle
  /\ run = RunIdle

\* nothing was handed to deduplicate_signals or came back from the model
InitTools ==
  /\ signals = <<>>
  /\ deduped = None
  /\ content = <<>>
  /\ parsed = None
  /\ InitScripts

InitUnits(cs) == InitTraversals(cs) /\ InitTools

\* ---- one call of evaluate_chunk, on any unit and any answers of the model
Init ==
  \E t \in Texts, d \in MeetingDates : InitUnits(<<ChunkData(1, t, d)>>)

Next ==
  \/ Invoke(1)
  \/ Classify(1, ClassifyResponses)
  \/ ValidateEvidence(1)
  \/ Score(1, ScoreResponses)
  \/ Normalize(1, Timestamps)
  \/ Drop(1)
  \/ ErrorHandler(1)

Spec == Init /\ [][Next]_vars

\* graph.invoke runs the node pc names until END: no node waits on another
FairSpec == Spec /\ WF_vars(Next)

\* ---- main of evaluate_with_langgraph.py over chunks_to_evaluate
FewTexts == {<<"a">>, <<"A">>}

FewTimestamps == {"t1"}

\* the sequences of NumChunks chunks with chunk ids 1..NumChunks
ChunkLists ==
  {[k \in 1..NumChunks |-> ChunkData(k, texts[k], None)] :
     texts \in [1..NumChunks -> FewTexts]}

\* the eval_record main builds from a final state
eval_record(chunk, final_state) ==
  [chunk_id |-> chunk.chunk_id, artifact_id |-> chunk.artifact_id,
   district |-> chunk.district, keep |-> final_state.keep,
   errors |-> final_state.errors,
   classification |-> final_state.classification,
   scoring |-> final_state.scoring,
   signal_record |-> final_state.signal_record]

\* the record main's except branch builds from the exception
error_record(chunk, e) ==
  [chunk_id |-> chunk.chunk_id, artifact_id |-> chunk.artifact_id,
   district |-> chunk.district, keep |-> FALSE, errors |-> <<Error("", e)>>,
   classification |-> None, scoring |-> None, signal_record |-> None]

\* evaluate_chunk returned: the record is written, the loop goes on
WriteRecord ==
  /\ idx \in Units
  /\ pc[idx] = "END"
  /\ eval_file' = Append(eval_file, eval_record(chunks[idx], state[idx]))
  /\ kept_count' = IF state[idx].signal_record # None THEN kept_count + 1 ELSE kept_count
  /\ idx' = idx + 1
  /\ UNCHANGED <<chunks, state, pc, cresp, sresp, trace, error_count, first_run, writes, llm_calls, tools>>

\* mutant: no try around evaluate_chunk, the exception ends the loop
WriteErrorRecord_aborts ==
  /\ idx \in Units
  /\ pc[idx] = "RAISED"
  /\ idx' = Len(chunks) + 1
  /\ UNCHANGED <<chunks, state, pc, cresp, sresp, trace, eval_file, kept_count,
                 error_count, first_run, writes, llm_calls, tools>>

\* evaluate_chunk raised: an error record is written, the loop goes on
WriteErrorRecord ==
  /\ idx \in Units
  /\ pc[idx] = "RAISED"
  /\ eval_file' = Append(eval_file, error_record(chunks[idx], "TypeError"))
  /\ error_count' = error_count + 1
  /\ idx' = idx + 1
  /\ UNCHANGED <<chunks, state, pc, cresp, sresp, trace, kept_count, first_run, writes, llm_calls, tools>>

BatchInit == \E cs \in ChunkLists : InitUnits(cs)

\* the loop body runs evaluate_chunk on the chunk the loop is at
BatchNext ==
  \/ (idx \in Units /\ Invoke(idx))
  \/ (idx \in Units /\ Classify(idx, FewClassifyResponses))
  \/ (idx \in Units /\ ValidateEvidence(idx))
  \/ (idx \in Units /\ Score(idx, FewScoreResponses))
  \/ (idx \in Units /\ Normalize(idx, FewTimestamps))
  \/ (idx \in Units /\ Drop(idx))
  \/ (idx \in Units /\ ErrorHandler(idx))
  \/ WriteRecord
  \/ WriteErrorRecord

BatchSpec == BatchInit /\ [][BatchNext]_vars

\* ---- the traversals of the units, their stage steps in any order
ConcNext ==
  \/ \E u \in Units : Invoke(u)
  \/ \E u \in Units : Classify(u, FewClassifyResponses)
  \/ \E u \in Units : ValidateEvidence(u)
  \/ \E u \in Units : Score(u, FewScoreResponses)
  \/ \E u \in Units : Normalize(u, FewTimestamps)
  \/ \E u \in Units : Drop(u)
  \/ \E u \in Units : ErrorHandler(u)

ConcSpec == BatchInit /\ [][ConcNext]_vars

\* what one call of evaluate_chunk alone makes of chunk, given the answers
\* cr and sr of the model: the final state, and how the call ended
evaluate_chunk(chunk, cr, sr) ==
  LET s0 == initial_state(chunk)
      s1 == Merge(s0, classify_node(s0, cr[1]))
      s2 == Merge(s1, evidence_validation_node(s1))
      s3 == Merge(s2, score_node(s2, sr[1]))
      after_score == final_decision_router(s3)
  IN IF evidence_validation_raises(s1)
       THEN [final |-> s1, terminal |-> "RAISED"]
     ELSE IF decision_router(s2) # "score"
       THEN [final |-> s2, terminal |-> decision_router(s2)]
     ELSE [final |-> s3, terminal |-> after_score]

\* the last element of a non-empty list
Last(q) == q[Len(q)]

\* ---- evaluate_chunk called a second time on the same chunk
\* the first call is over; its final state stays where it was left, and the
\* caller calls evaluate_chunk on the chunk again
Rerun(u) ==
  /\ pc[u] \in {"END", "RAISED"}
  /\ first_run[u] = None
  /\ first_run' = [first_run EXCEPT ![u] =
       Some([final |-> state[u],
             terminal |-> IF pc[u] = "RAISED" THEN "RAISED" ELSE Last(trace[u]),
             cresp |-> cresp[u], sresp |-> sresp[u]])]
  /\ pc' = [pc EXCEPT ![u] = "START"]
  /\ trace' = [trace EXCEPT ![u] = <<>>]
  /\ cresp' = [cresp EXCEPT ![u] = None]
  /\ sresp' = [sresp EXCEPT ![u] = None]
  /\ writes' = [writes EXCEPT ![u] = <<>>]
  /\ llm_calls' = [llm_calls EXCEPT ![u] = 0]
  /\ UNCHANGED <<chunks, state, idx, eval_file, kept_count, error_count, tools>>

\* the model answers the second call as it answered the first
SameClassify(u) ==
  IF first_run[u] = None THEN FewClassifyResponses ELSE {first_run[u][1].cresp[1]}

SameScore(u) ==
  IF first_run[u] = None THEN FewScoreResponses
  ELSE IF first_run[u][1].sresp = None THEN {}
  ELSE {first_run[u][1].sresp[1]}

RerunInit ==
  \E t \in FewTexts, d \in MeetingDates : InitUnits(<<ChunkData(1, t, d)>>)

RerunNext ==
  \/ Invoke(1)
  \/ Classify(1, SameClassify(1))
  \/ ValidateEvidence(1)
  \/ Score(1, SameScore(1))
  \/ Normalize(1, Timestamps)
  \/ Drop(1)
  \/ ErrorHandler(1)
  \/ Rerun(1)

RerunSpec == RerunInit /\ [][RerunNext]_vars

\* ---- the routers as functions of any state
\* the states a router can be handed: any combination of errors, classification
\* and scoring, also those no traversal of the graph produces
RouterStates ==
  {[chunk |-> ChunkData(1, <<"a">>, None), classification |-> cl, scoring |-> sc,
    errors |-> er, keep |-> FALSE, signal_record |-> None] :
     cl \in {None}
            \cup {Some([category |-> c, confidence |-> f,
                        evidence_snippet |-> JStr(<<"a">>), rationale |-> "rationale"]) :
                    c \in {"none", "pilot_evaluation"},
                    f \in {Float(69), Float(CONFIDENCE_THRESHOLD), Float(95)}},
     sc \in {None}
            \cup {Some([opportunity_score |-> o,
                        score_breakdown |-> [n \in BreakdownNames |-> 0],
                        summary |-> "summary", recommended_next_step |-> st]) :
                    o \in {SCORE_THRESHOLD - 1, SCORE_THRESHOLD, 62},
                    st \in {"reach_out_now", "monitor"}},
     er \in {<<>>, <<Error("score_node", "timeout")>>}}

RouterInit ==
  \E s \in RouterStates, r \in {"decision_router", "final_decision_router"} :
    /\ chunks = <<s.chunk>>
    /\ state = <<s>>
    /\ pc = <<r>>
    /\ cresp = <<None>>
    /\ sresp = <<None>>
    /\ trace = <<<<>>>>
    /\ writes = <<<<>>>>
    /\ idx = 1
    /\ eval_file = <<>>
    /\ kept_count = 0
    /\ error_count = 0
    /\ first_run = <<None>>
    /\ llm_calls = <<0>>
    /\ InitTools

\* the conditional edge after validate_evidence
DecisionRoute(u) ==
  /\ pc[u] = "decision_router"
  /\ pc' = [pc EXCEPT ![u] = decision_router(state[u])]
  /\ trace' = [trace EXCEPT ![u] = Append(@, "decision_router")]
  /\ UNCHANGED <<chunks, state, cresp, sresp, writes, llm_calls, driver>>

\* the conditional edge after score
FinalRoute(u) ==
  /\ pc[u] = "final_decision_router"
  /\ pc' = [pc EXCEPT ![u] = final_decision_router(state[u])]
  /\ trace' = [trace EXCEPT ![u] = Append(@, "final_decision_router")]
  /\ UNCHANGED <<chunks, state, cresp, sresp, writes, llm_calls, driver>>

RouterNext ==
  \/ DecisionRoute(1)
  \/ FinalRoute(1)

RouterSpec == RouterInit /\ [][RouterNext]_vars

\* ---- scripts/export_signals.py: deduplicate_signals
\* a signal record as deduplicate_signals reads it: the four keys it gets
\* (each may be absent) and chunk_id, which tells records apart
Signal(id, art, cat, ev, score) ==
  [chunk_id |-> id, artifact_id |-> art, category |-> cat,
   evidence_snippet |-> ev, opportunity_score |-> score]

\* an evidence_snippet of DEDUP_PREFIX + 1 characters ending in c
LongSnippet(c) == [i \in 1..DEDUP_PREFIX |-> "a"] \o <<c>>

SignalPool ==
  {Signal(1, Some("art1"), Some("pilot_evaluation"), Some(LongSnippet("a")), Some(10)),
   Signal(2, Some("art1"), Some("pilot_evaluation"), Some(LongSnippet("A")), Some(62)),
   Signal(3, Some("art1"), Some("pilot_evaluation"), Some(LongSnippet("A")), Some(62)),
   Signal(4, Some("art1"), Some("pilot_evaluation"), Some(<<"a">>), Some(62)),
   Signal(5, Some("art2"), Some("pilot_evaluation"), Some(LongSnippet("a")), Some(10)),
   Signal(6, Some("art1"), Some("budget_allocation"), Some(LongSnippet("a")), None),
   Signal(7, None, None, None, Some(10))}

SignalLists == SeqsUpTo(SignalPool, MaxSignals)

\* dict.get(key, default)
Get(opt, default) == IF opt = None THEN default ELSE opt[1]

\* text[:DEDUP_PREFIX]
Prefix(text) ==
  SubSeq(text, 1, IF Len(text) < DEDUP_PREFIX THEN Len(text) ELSE DEDUP_PREFIX)

dedup_key(signal) ==
  <<Get(signal.artifact_id, ""), Get(signal.category, ""),
    Prefix(Get(signal.evidence_snippet, <<>>))>>

\* the keys of groups, in the order a dict keeps them: first insertion
RECURSIVE group_keys(_)
group_keys(sigs) ==
  IF sigs = <<>> THEN <<>>
  ELSE LET rest == group_keys(SubSeq(sigs, 1, Len(sigs) - 1))
           key == dedup_key(sigs[Len(sigs)])
       IN IF \E n \in DOMAIN rest : rest[n] = key THEN rest ELSE Append(rest, key)

\* groups[key]: the signals of the key, in input order
group(sigs, key) == SelectSeq(sigs, LAMBDA sig : dedup_key(sig) = key)

\* max(group, key=lambda s: s.get("opportunity_score", 0)): the first of
\* the members with the greatest score
best(g) ==
  g[CHOOSE i \in DOMAIN g :
      /\ \A j \in DOMAIN g :
           Get(g[j].opportunity_score, 0) <= Get(g[i].opportunity_score, 0)
      /\ \A j \in 1..(i - 1) :
           Get(g[j].opportunity_score, 0) < Get(g[i].opportunity_score, 0)]

\* mutant: the first signal of every group is kept
deduplicate_signals_keeps_first(sigs) ==
  [n \in DOMAIN group_keys(sigs) |-> group(sigs, group_keys(sigs)[n])[1]]

deduplicate_signals(sigs) ==
  [n \in DOMAIN group_keys(sigs) |-> best(group(sigs, group_keys(sigs)[n]))]

Deduplicate ==
  /\ deduped = None
  /\ deduped' = Some(deduplicate_signals(signals))
  /\ UNCHANGED <<chunks, state, pc, cresp, sresp, trace, writes, idx, eval_file,
                 kept_count, error_count, first_run, signals, content, parsed,
                 llm_calls, scripts>>

DedupInit ==
  /\ InitTraversals(<<>>)
  /\ signals \in SignalLists
  /\ deduped = None
  /\ content = <<>>
  /\ parsed = None
  /\ InitScripts

DedupNext == Deduplicate

DedupSpec == DedupInit /\ [][DedupNext]_vars

\* ---- src/llm.py: _extract_json_from_response and invoke_llm_json
\* response.content is a sequence of characters; positions are counted from
\* 0 as str.find counts them
\* the backtick character
Backtick == "backtick"

Fence == <<Backtick, Backtick, Backtick>>

FenceJson == Fence \o <<"j", "s", "o", "n">>

Whitespace == {" ", "\n"}

\* sub occurs in text at position i
OccursAt(text, sub, i) ==
  /\ i + Len(sub) <= Len(text)
  /\ SubSeq(text, i + 1, i + Len(sub)) = sub

\* text.find(sub, start): the lowest position from start on, or -1
Find(text, sub, start) ==
  IF \E i \in start..Len(text) : OccursAt(text, sub, i)
    THEN CHOOSE i \in start..Len(text) :
           /\ OccursAt(text, sub, i)
           /\ \A j \in start..(i - 1) : ~OccursAt(text, sub, j)
    ELSE -1

\* text[start:end] for start >= 0; a negative end counts from the end
PySlice(text, start, end) ==
  LET e == IF end < 0
             THEN (IF Len(text) + end < 0 THEN 0 ELSE Len(text) + end)
             ELSE (IF end > Len(text) THEN Len(text) ELSE end)
  IN IF start >= e THEN <<>> ELSE SubSeq(text, start + 1, e)

\* text.strip()
RECURSIVE PyStrip(_)
PyStrip(text) ==
  IF text = <<>> THEN <<>>
  ELSE IF text[1] \in Whitespace THEN PyStrip(Tail(text))
  ELSE IF text[Len(text)] \in Whitespace THEN PyStrip(SubSeq(text, 1, Len(text) - 1))
  ELSE text

_extract_json_from_response(text) ==
  IF Find(text, FenceJson, 0) # -1
    THEN LET start == Find(text, FenceJson, 0) + 7
             end == Find(text, Fence, start)
         IN PyStrip(PyStrip(PySlice(text, start, end)))
  ELSE IF Find(text, Fence, 0) # -1
    THEN LET start == Find(text, Fence, 0) + 3
             end == Find(text, Fence, start)
         IN PyStrip(PyStrip(PySlice(text, start, end)))
  ELSE PyStrip(text)

\* json.loads on the JSON texts of this alphabet: a number (digits), a
\* string (quoted, no quote or line break inside) or an object; an object
\* is written {} or {"b"}, the latter standing for the object whose
\* evidence_snippet is the string b.  Any other text is a JSONDecodeError.
JsonIsNumber(t) == t # <<>> /\ \A i \in DOMAIN t : t[i] = "1"

JsonIsString(t) ==
  /\ Len(t) >= 2
  /\ t[1] = "\"" /\ t[Len(t)] = "\""
  /\ \A i \in 2..(Len(t) - 1) : t[i] \notin {"\"", "\n"}

JsonIsObject(t) ==
  /\ Len(t) >= 2
  /\ t[1] = "{" /\ t[Len(t)] = "}"
  /\ LET inner == PyStrip(SubSeq(t, 2, Len(t) - 1))
     IN inner = <<>> \/ JsonIsString(inner)

JsonDecodeError == [ok |-> FALSE, kind |-> "", body |-> <<>>]

JsonLoads(text) ==
  LET t == PyStrip(text) IN
  IF JsonIsNumber(t) THEN [ok |-> TRUE, kind |-> "number", body |-> t]
  ELSE IF JsonIsString(t)
    THEN [ok |-> TRUE, kind |-> "string", body |-> SubSeq(t, 2, Len(t) - 1)]
  ELSE IF JsonIsObject(t)
    THEN LET inner == PyStrip(SubSeq(t, 2, Len(t) - 1))
         IN IF inner = <<>> THEN [ok |-> TRUE, kind |-> "empty object", body |-> <<>>]
            ELSE [ok |-> TRUE, kind |-> "object",
                  body |-> SubSeq(inner, 2, Len(inner) - 1)]
  ELSE JsonDecodeError

\* invoke_llm_json on a response: the parsed value, or ValueError
invoke_llm_json(text) == JsonLoads(_extract_json_from_response(text))

\* what classify_node holds in result after invoke_llm_json
LlmResult(p) ==
  IF ~p.ok THEN ClassifyRaise("LLM response is not valid JSON")
  ELSE IF p.kind = "object"
    THEN ClassifyObject(AllFields, "pilot_evaluation", JNum(95), JStr(p.body))
  ELSE IF p.kind = "empty object"
    THEN ClassifyObject({}, "pilot_evaluation", JNum(95), JStr(<<>>))
  ELSE ClassifyNonObject

\* the payloads: objects, a number, text that is no JSON, and objects whose
\* string holds backticks
Payloads ==
  {<<"{", "}">>,
   <<"{", "\"", "a", "\"", "}">>,
   <<"{", " ", "\"", "a", "A", "\"", " ", "}">>,
   <<"1">>,
   <<"{", "\"", "a">>,
   <<"x">>,
   <<"{", "\"">> \o Fence \o <<"1">> \o Fence \o <<"\"", "}">>,
   <<"{", "\"", "a">> \o Fence \o <<"\"", "}">>}

\* the ways a response wraps its payload
Wrappings == {"bare", "json fence", "fence", "json fence in text", "fence in text",
              "text", "open json fence"}

FencedWrappings == {"json fence", "fence", "json fence in text", "fence in text"}

Wrap(w, p) ==
  CASE w = "bare" -> p
    [] w = "json fence" -> FenceJson \o <<"\n">> \o p \o <<"\n">> \o Fence
    [] w = "fence" -> Fence \o <<"\n">> \o p \o <<"\n">> \o Fence
    [] w = "json fence in text" ->
         <<"x", " ">> \o FenceJson \o <<"\n">> \o p \o <<"\n">> \o Fence \o <<" ", "x">>
    [] w = "fence in text" ->
         <<"x", " ">> \o Fence \o <<" ">> \o p \o <<" ">> \o Fence \o <<" ", "x">>
    [] w = "text" -> <<"x", " ">> \o p
    [] w = "open json fence" -> FenceJson \o <<"\n">> \o p

Contents == {Wrap(w, p) : w \in Wrappings, p \in Payloads}

\* llm.invoke returned content; invoke_llm_json extracts and parses it
InvokeLlmJson ==
  /\ pc[1] = "classify"
  /\ parsed = None
  /\ parsed' = Some(invoke_llm_json(content))
  /\ UNCHANGED <<chunks, state, pc, cresp, sresp, trace, writes, idx, eval_file,
                 kept_count, error_count, first_run, signals, deduped, content,
                 llm_calls, scripts>>

\* classify_node goes on with what invoke_llm_json returned or raised
ClassifyParsed(u) ==
  /\ parsed # None
  /\ Classify(u, {LlmResult(parsed[1])})

LlmInit ==
  /\ InitTraversals(<<ChunkData(1, <<"a">>, None)>>)
  /\ signals = <<>>
  /\ deduped = None
  /\ content \in Contents
  /\ parsed = None
  /\ InitScripts

LlmNext ==
  \/ Invoke(1)
  \/ InvokeLlmJson
  \/ ClassifyParsed(1)

LlmSpec == LlmInit /\ [][LlmNext]_vars

\* ---- scripts/evaluate_pdfs.py: should_keep_signal
\* mutant: no override for reach_out_now
should_keep_signal_no_override(classification, scoring, confidence_threshold, score_threshold) ==
  IF classification.category = "none" THEN FALSE
  ELSE IF FloatLt(classification.confidence, Float(confidence_threshold)) THEN FALSE
  ELSE scoring.opportunity_score >= score_threshold

should_keep_signal(classification, scoring, confidence_threshold, score_threshold) ==
  IF classification.category = "none" THEN FALSE
  ELSE IF FloatLt(classification.confidence, Float(confidence_threshold)) THEN FALSE
  ELSE IF \/ scoring.opportunity_score >= score_threshold
          \/ scoring.recommended_next_step = "reach_out_now"
    THEN TRUE
  ELSE FALSE

\* the classifications and scorings normalize_signal builds: any category
\* and next step, a float confidence (NaN too), an int score; each on an
\* error-free state
KeepStates ==
  {[chunk |-> ChunkData(1, <<"a">>, None),
    classification |-> Some([category |-> c, confidence |-> f,
                             evidence_snippet |-> JStr(<<"a">>),
                             rationale |-> "rationale"]),
    scoring |-> Some([opportunity_score |-> o,
                      score_breakdown |-> [n \in BreakdownNames |-> 0],
                      summary |-> "summary", recommended_next_step |-> st]),
    errors |-> <<>>, keep |-> FALSE, signal_record |-> None] :
     c \in CategoryRaws,
     f \in {Float(CONFIDENCE_THRESHOLD - 1), Float(CONFIDENCE_THRESHOLD), Float(95), NaN},
     o \in {SCORE_THRESHOLD - 1, SCORE_THRESHOLD, 62},
     st \in {"reach_out_now", "monitor"}}

ShouldKeepSignal ==
  /\ should_keep = None
  /\ should_keep' = Some(should_keep_signal(state[1].classification[1],
                                            state[1].scoring[1],
                                            CONFIDENCE_THRESHOLD, SCORE_THRESHOLD))
  /\ UNCHANGED <<chunks, state, pc, cresp, sresp, trace, writes, idx, eval_file,
                 kept_count, error_count, first_run, signals, deduped, content,
                 parsed, llm_calls, chunker, weekly, run>>

KeepInit ==
  \E s \in KeepStates :
    /\ chunks = <<s.chunk>>
    /\ state = <<s>>
    /\ pc = <<"START">>
    /\ cresp = <<None>>
    /\ sresp = <<None>>
    /\ trace = <<<<>>>>
    /\ writes = <<<<>>>>
    /\ idx = 1
    /\ eval_file = <<>>
    /\ kept_count = 0
    /\ error_count = 0
    /\ first_run = <<None>>
    /\ llm_calls = <<0>>
    /\ InitTools

KeepNext == ShouldKeepSignal

KeepSpec == KeepInit /\ [][KeepNext]_vars

\* ------------------------------------- scripts/extract_and_chunk.py: chunk_text

\* the longest text chunk_text is called on, in tokens
MaxTokens == 5

\* the largest chunk_size chunk_text is called with
MaxChunkSize == 3

\* the longest list of chunks the loop is followed to
MaxChunks == 6

Min(a, b) == IF a <= b THEN a ELSE b

\* the two early returns of chunk_text, else the entry into the while loop
ChunkTextCall ==
  /\ chunker.pc = "called"
  /\ chunker' =
       IF chunker.total_tokens = 0
         THEN [chunker EXCEPT !.pc = "returned", !.chunks = <<>>]
       ELSE IF chunker.total_tokens <= chunker.chunk_size
         THEN [chunker EXCEPT !.pc = "returned",
                              !.chunks = <<<<0, chunker.total_tokens>>>>]
       ELSE [chunker EXCEPT !.pc = "loop", !.start = 0, !.chunks = <<>>]
  /\ UNCHANGED <<chunks, state, pc, cresp, sresp, trace, writes, idx, eval_file,
                 kept_count, error_count, first_run, signals, deduped, content,
                 parsed, llm_calls, should_keep, weekly, run>>

\* one iteration of the while loop: append tokens[start:end], move start to
\* end - overlap, leave the loop when start reached total_tokens
ChunkTextLoop ==
  /\ chunker.pc = "loop"
  /\ chunker.start < chunker.total_tokens
  /\ Len(chunker.chunks) < MaxChunks
  /\ LET end == Min(chunker.start + chunker.chunk_size, chunker.total_tokens)
         start == end - chunker.overlap
     IN  chunker' = [chunker EXCEPT
                       !.chunks = Append(@, <<chunker.start, end>>),
                       !.start = start,
                       !.pc = IF start >= chunker.total_tokens THEN "returned"
                              ELSE "loop"]
  /\ UNCHANGED <<chunks, state, pc, cresp, sresp, trace, writes, idx, eval_file,
                 kept_count, error_count, first_run, signals, deduped, content,
                 parsed, llm_calls, should_keep, weekly, run>>

\* the calls of chunk_text: a text of any number of tokens and any
\* chunk_size > overlap >= 0; a chunk is the window <<start, end>> of the
\* tokens it decodes, tokens[start:end]
ChunkInit ==
  /\ InitTraversals(<<>>)
  /\ signals = <<>>
  /\ deduped = None
  /\ content = <<>>
  /\ parsed = None
  /\ should_keep = None
  /\ weekly = WeeklyIdle
  /\ run = RunIdle
  /\ \E n \in 0..MaxTokens, cs \in 1..MaxChunkSize :
       \E ov \in 0..(cs - 1) :
         chunker = [pc |-> "called", total_tokens |-> n, chunk_size |-> cs,
                    overlap |-> ov, start |-> 0, chunks |-> <<>>]

ChunkNext == ChunkTextCall \/ ChunkTextLoop

ChunkSpec == ChunkInit /\ [][ChunkNext]_vars

\* ------------------------------------------------- scripts/run_weekly.py: main

\* the values tried for each --limit-... option: 0 (not given) and one limit
Limits == {0, 1}

\* args.extend([flag, str(limit)]) when the limit is positive
LimitArg(flag, limit) == IF limit > 0 THEN <<<<flag, limit>>>> ELSE <<>>

\* one call of run_script and the counting main does after it: success is
\* whether the subprocess ran and returned code 0
run_script(w, script_name, args, success, next) ==
  [w EXCEPT !.steps = Append(@, [script |-> script_name, args |-> args,
                                 success |-> success]),
            !.steps_run = @ + 1,
            !.steps_failed = IF success THEN @ ELSE @ + 1,
            !.pc = next]

WeeklyUnchanged ==
  UNCHANGED <<chunks, state, pc, cresp, sresp, trace, writes, idx, eval_file,
              kept_count, error_count, first_run, signals, deduped, content,
              parsed, llm_calls, should_keep, chunker, run>>

\* step 1: discover_board_pages.py unless --skip-discover
WeeklyDiscover ==
  /\ weekly.pc = "discover"
  /\ \/ /\ weekly.skip_discover
        /\ weekly' = [weekly EXCEPT !.pc = "fetch"]
     \/ /\ ~weekly.skip_discover
        /\ \E success \in BOOLEAN :
             weekly' = run_script(weekly, "discover_board_pages.py",
                                  LimitArg("--limit", weekly.limit_districts),
                                  success, "fetch")
  /\ WeeklyUnchanged

\* a failed fetch ends the pipeline
WeeklyFetch_aborts ==
  /\ weekly.pc = "fetch"
  /\ \E success \in BOOLEAN, written \in BOOLEAN :
       weekly' = [run_script(weekly, "fetch_artifacts.py",
                             LimitArg("--limit-districts", weekly.limit_districts)
                               \o LimitArg("--limit-docs", weekly.limit_docs),
                             success, IF success THEN "check" ELSE "exited")
                    EXCEPT !.artifacts_csv = @ \/ written,
                           !.exit_code = IF success THEN None ELSE Some(1)]
  /\ WeeklyUnchanged

\* step 2: fetch_artifacts.py, which may write the artifacts file whether or
\* not it returns code 0
WeeklyFetch ==
  /\ weekly.pc = "fetch"
  /\ \E success \in BOOLEAN, written \in BOOLEAN :
       weekly' = [run_script(weekly, "fetch_artifacts.py",
                             LimitArg("--limit-districts", weekly.limit_districts)
                               \o LimitArg("--limit-docs", weekly.limit_docs),
                             success, "check")
                    EXCEPT !.artifacts_csv = @ \/ written]
  /\ WeeklyUnchanged

\* if not settings.artifacts_csv.exists(): raise typer.Exit(1)
WeeklyCheckArtifacts ==
  /\ weekly.pc = "check"
  /\ weekly' = IF weekly.artifacts_csv
                 THEN [weekly EXCEPT !.pc = "evaluate"]
                 ELSE [weekly EXCEPT !.pc = "exited", !.exit_code = Some(1)]
  /\ WeeklyUnchanged

\* step 3: evaluate_pdfs.py
WeeklyEvaluate ==
  /\ weekly.pc = "evaluate"
  /\ \E success \in BOOLEAN :
       weekly' = run_script(weekly, "evaluate_pdfs.py",
                            LimitArg("--limit", weekly.limit_pdfs), success, "export")
  /\ WeeklyUnchanged

\* step 4: export_signals.py
WeeklyExport ==
  /\ weekly.pc = "export"
  /\ \E success \in BOOLEAN :
       weekly' = run_script(weekly, "export_signals.py", <<>>, success, "summary")
  /\ WeeklyUnchanged

\* the summary, then raise typer.Exit(1) if a step failed, else a normal
\* return (exit status 0)
WeeklySummary ==
  /\ weekly.pc = "summary"
  /\ weekly' = [weekly EXCEPT !.pc = "exited",
                              !.exit_code = IF weekly.steps_failed > 0 THEN Some(1)
                                            ELSE Some(0)]
  /\ WeeklyUnchanged

\* the invocations of main: any options, the artifacts file left or not by
\* an earlier run
WeeklyInit ==
  /\ InitTraversals(<<>>)
  /\ signals = <<>>
  /\ deduped = None
  /\ content = <<>>
  /\ parsed = None
  /\ should_keep = None
  /\ chunker = ChunkerIdle
  /\ run = RunIdle
  /\ \E sd \in BOOLEAN, ld \in Limits, lo \in Limits, lp \in Limits, a \in BOOLEAN :
       weekly = [pc |-> "discover", skip_discover |-> sd, limit_districts |-> ld,
                 limit_docs |-> lo, limit_pdfs |-> lp, steps |-> <<>>,
                 steps_run |-> 0, steps_failed |-> 0, artifacts_csv |-> a,
                 exit_code |-> None]

WeeklyNext ==
  \/ WeeklyDiscover
  \/ WeeklyFetch
  \/ WeeklyCheckArtifacts
  \/ WeeklyEvaluate
  \/ WeeklyExport
  \/ WeeklySummary

WeeklySpec == WeeklyInit /\ [][WeeklyNext]_vars

\* ------------------ scripts/evaluate_with_langgraph.py: main, run after run

\* the number of runs of main that are followed
MaxRuns == 2

\* the values tried for --limit: 0 (not given) and a limit below NumChunks
RunLimits == {0, 1}

\* the chunk ids of the records in the evaluations file
load_existing_evaluations(file) == {file[i].chunk_id : i \in DOMAIN file}

\* chunks[:limit] when a limit is given
ApplyLimit(cs, limit) ==
  IF limit > 0 THEN SubSeq(cs, 1, Min(limit, Len(cs))) ELSE cs

\* [c for c in chunks if c["chunk_id"] not in evaluated_ids]
chunks_to_evaluate(cs, evaluated_ids) ==
  LET NotEvaluated(c) == c.chunk_id \notin evaluated_ids
  IN  SelectSeq(cs, NotEvaluated)

\* main up to the loop in a new process (run.prev and run.before keep how
\* the previous run ended and how many records it left), given what it filters out
\* (evaluated_ids) and whether it opens the file in mode "w" (truncate):
\* with nothing to evaluate it exits with 0 before the file is opened
BeginRun(reprocess, limit, evaluated_ids, truncate) ==
  LET cs == chunks_to_evaluate(ApplyLimit(run.chunks_file, limit), evaluated_ids)
  IN  /\ run.status \in {"idle", "completed", "interrupted"}
      /\ run.n < MaxRuns
      /\ run' = [run EXCEPT !.status = IF cs = <<>> THEN "completed" ELSE "running",
                            !.prev = run.status,
                            !.reprocess = reprocess,
                            !.limit = limit,
                            !.n = @ + 1,
                            !.before = Len(eval_file)]
      /\ chunks' = cs
      /\ state' = [u \in DOMAIN cs |-> initial_state(cs[u])]
      /\ pc' = [u \in DOMAIN cs |-> "START"]
      /\ cresp' = [u \in DOMAIN cs |-> None]
      /\ sresp' = [u \in DOMAIN cs |-> None]
      /\ trace' = [u \in DOMAIN cs |-> <<>>]
      /\ first_run' = [u \in DOMAIN cs |-> None]
      /\ writes' = [u \in DOMAIN cs |-> <<>>]
      /\ llm_calls' = [u \in DOMAIN cs |-> 0]
      /\ idx' = 1
      /\ kept_count' = 0
      /\ error_count' = 0
      /\ eval_file' = IF cs # <<>> /\ truncate THEN <<>> ELSE eval_file
      /\ UNCHANGED <<signals, deduped, content, parsed, should_keep, chunker, weekly>>

\* mutant: the existing evaluations are not loaded
StartRun_ignores_existing(reprocess, limit) ==
  BeginRun(reprocess, limit, {}, reprocess)

\* mutant: the file is opened in mode "a" whatever --reprocess says
StartRun_appends(reprocess, limit) ==
  BeginRun(reprocess, limit,
           IF reprocess THEN {} ELSE load_existing_evaluations(eval_file), FALSE)

\* main is started: evaluated_ids is empty under --reprocess, else the ids
\* in the file; mode is "w" under --reprocess, else "a"
StartRun(reprocess, limit) ==
  BeginRun(reprocess, limit,
           IF reprocess THEN {} ELSE load_existing_evaluations(eval_file),
           reprocess)

\* the loop is over: the file is closed and main returns
FinishRun ==
  /\ run.status = "running"
  /\ idx = Len(chunks) + 1
  /\ run' = [run EXCEPT !.status = "completed"]
  /\ UNCHANGED <<chunks, state, pc, cresp, sresp, trace, writes, idx, eval_file,
                 kept_count, error_count, first_run, signals, deduped, content,
                 parsed, llm_calls, should_keep, chunker, weekly>>

\* the process is interrupted or killed between two steps: the file holds
\* the records written and flushed so far
Interrupt ==
  /\ run.status = "running"
  /\ run' = [run EXCEPT !.status = "interrupted"]
  /\ UNCHANGED <<chunks, state, pc, cresp, sresp, trace, writes, idx, eval_file,
                 kept_count, error_count, first_run, signals, deduped, content,
                 parsed, llm_calls, should_keep, chunker, weekly>>

Running == run.status = "running" /\ idx \in Units

RunsInit ==
  \E cs \in ChunkLists :
    /\ InitTraversals(<<>>)
    /\ signals = <<>>
    /\ deduped = None
    /\ content = <<>>
    /\ parsed = None
    /\ should_keep = None
    /\ chunker = ChunkerIdle
    /\ weekly = WeeklyIdle
    /\ run = [RunIdle EXCEPT !.chunks_file = cs]

\* the loop of one run
RunLoop ==
  \/ (Running /\ Invoke(idx))
  \/ (Running /\ Classify(idx, FewClassifyResponses))
  \/ (Running /\ ValidateEvidence(idx))
  \/ (Running /\ Score(idx, FewScoreResponses))
  \/ (Running /\ Normalize(idx, FewTimestamps))
  \/ (Running /\ Drop(idx))
  \/ (Running /\ ErrorHandler(idx))
  \/ (Running /\ WriteRecord)
  \/ (Running /\ WriteErrorRecord)
  \/ FinishRun
  \/ Interrupt

\* ---- runs without --reprocess
ResumeNext ==
  \/ \E limit \in RunLimits : StartRun(FALSE, limit)
  \/ RunLoop

ResumeSpec == RunsInit /\ [][ResumeNext]_vars

\* ---- runs with and without --reprocess
RunsNext ==
  \/ \E reprocess \in BOOLEAN, limit \in RunLimits : StartRun(reprocess, limit)
  \/ RunLoop

RunsSpec == RunsInit /\ [][RunsNext]_vars

\* ------------------------------------------------------------------ claims

Executed(u, n) == \E k \in DOMAIN trace[u] : trace[u][k] = n

Nodes ==
  {"classify", "validate_evidence", "score", "normalize", "drop", "error_handler"}

\* the classify answer had every required field, and an evidence_snippet
\* that is no string
WrongTypedEvidence(u) ==
  /\ cresp[u] # None
  /\ cresp[u][1].ok /\ cresp[u][1].isobj /\ cresp[u][1].has = AllFields
  /\ cresp[u][1].evidence_snippet.t # "str"

C1_Safety ==
  \A u \in Units :
    /\ pc[u] \in Nodes \cup {"START", "END", "RAISED"}
    /\ pc[u] = "RAISED" => WrongTypedEvidence(u)
    /\ pc[u] = "END" =>
         /\ Last(trace[u]) \in TerminalNodes
         /\ Cardinality({k \in DOMAIN trace[u] : trace[u][k] \in TerminalNodes}) = 1
    /\ pc[u] # "END" => \A k \in DOMAIN trace[u] : trace[u][k] \notin TerminalNodes

C2_KeepIffSignalRecordIffNormalize ==
  \A u \in Units :
    /\ pc[u] = "END" =>
         /\ state[u].keep <=> state[u].signal_record # None
         /\ state[u].keep <=> Last(trace[u]) = "normalize"
    /\ (state[u].keep \/ state[u].signal_record # None) => Executed(u, "normalize")

C2_Witness ==
  /\ pc[1] = "END"
  /\ state[1].keep
  /\ state[1].signal_record # None
  /\ Last(trace[1]) = "normalize"

\* s occurs in t as it stands: t is some prefix, then s, then some suffix
LiteralSubstring(s, t) ==
  \E i \in 0..Len(t), j \in 1..(Len(t) + 1) :
    SubSeq(t, 1, i) \o s \o SubSeq(t, j, Len(t)) = t

\* C3: once evidence validation has let a traversal on towards normalize,
\* the classification's evidence_snippet is a str that occurs literally
\* (case kept, nothing normalised) in the chunk's text, in every later
\* state, and the signal_record carries that same snippet.
C3_EvidenceIsLiteralSubstring ==
  \A u \in Units :
    (pc[u] \in {"score", "normalize"} \/ Executed(u, "score") \/ Executed(u, "normalize")) =>
      /\ state[u].classification # None
      /\ state[u].classification[1].evidence_snippet.t = "str"
      /\ LiteralSubstring(state[u].classification[1].evidence_snippet.s,
                          state[u].chunk.text)
      /\ state[u].signal_record # None =>
           state[u].signal_record[1].evidence_snippet
             = state[u].classification[1].evidence_snippet

C3_Witness ==
  /\ pc[1] = "END"
  /\ Last(trace[1]) = "normalize"
  /\ state[1].chunk.text = <<"a", "A">>
  /\ state[1].signal_record[1].evidence_snippet = JStr(<<"A">>)

\* the classify stage fails on answer r: the call raised, the payload is no
\* object, a required field is absent, or confidence is no number
ClassifyFails(r) ==
  \/ ~r.ok
  \/ ~r.isobj
  \/ r.has # AllFields
  \/ r.confidence.t \notin {"num", "numstr"}

\* C4: when classify fails, errors holds an entry of classify_node, no
\* classification is written, score never runs, and the traversal ends at
\* error_handler (never drop) with keep false.
C4_ClassifyFailureEndsAtErrorHandler ==
  \A u \in Units :
    (cresp[u] # None /\ ClassifyFails(cresp[u][1])) =>
      /\ state[u].classification = None
      /\ state[u].errors # <<>>
      /\ state[u].errors[1][1] = "classify_node"
      /\ ~state[u].keep
      /\ pc[u] \in {"validate_evidence", "error_handler", "END"}
      /\ ~Executed(u, "score") /\ ~Executed(u, "drop")
      /\ pc[u] = "END" => Last(trace[u]) = "error_handler"

C4_Witness ==
  /\ pc[1] = "END"
  /\ cresp[1] # None
  /\ cresp[1][1].ok /\ cresp[1][1].isobj
  /\ cresp[1][1].has = AllFields \ {"confidence"}
  /\ Last(trace[1]) = "error_handler"

\* C5: evaluate_chunk never raises to its caller, whatever the model
\* returns (stated as the claim has it; the code violates it).
C5_EvaluateChunkNeverRaises == \A u \in Units : pc[u] # "RAISED"

\* C8: on an error-free state whose category is not "none", decision_router
\* returns "score" when confidence >= CONFIDENCE_THRESHOLD and "drop" only
\* when confidence < CONFIDENCE_THRESHOLD; the graph follows it.
C8_ConfidenceThresholdInclusive ==
  \A u \in Units :
    LET s == state[u] IN
    (s.errors = <<>> /\ s.classification # None
       /\ s.classification[1].category # "none") =>
      LET conf == s.classification[1].confidence IN
      /\ (~conf.nan /\ conf.c >= CONFIDENCE_THRESHOLD) => decision_router(s) = "score"
      /\ decision_router(s) = "drop" => (~conf.nan /\ conf.c < CONFIDENCE_THRESHOLD)
      /\ (trace[u] # <<>> /\ Last(trace[u]) = "validate_evidence" /\ pc[u] # "RAISED") =>
           pc[u] = decision_router(s)

C8_Witness ==
  /\ pc[1] = "score"
  /\ state[1].errors = <<>>
  /\ state[1].classification[1].confidence = Float(CONFIDENCE_THRESHOLD)

\* C9: on an error-free state with a scoring, final_decision_router returns
\* "normalize" whenever opportunity_score >= SCORE_THRESHOLD, whatever
\* recommended_next_step is; the graph follows it.
C9_ScoreThresholdInclusive ==
  \A u \in Units :
    LET s == state[u] IN
    (s.errors = <<>> /\ s.scoring # None
       /\ s.scoring[1].opportunity_score >= SCORE_THRESHOLD) =>
      /\ final_decision_router(s) = "normalize"
      /\ Last(trace[u]) = "score" => pc[u] = "normalize"
      /\ ~Executed(u, "drop")

C9_Witness ==
  /\ pc[1] = "END"
  /\ Last(trace[1]) = "normalize"
  /\ state[1].scoring[1].opportunity_score = SCORE_THRESHOLD
  /\ state[1].scoring[1].recommended_next_step = "monitor"

\* C10: a unit whose classification passed validation with category "none"
\* ends at drop for every confidence, and score never runs for it.
C10_CategoryNoneIsDropped ==
  \A u \in Units :
    LET s == state[u] IN
    (Executed(u, "validate_evidence") /\ pc[u] # "RAISED" /\ s.errors = <<>>
       /\ s.classification # None /\ s.classification[1].category = "none") =>
      /\ pc[u] \in {"drop", "END"}
      /\ ~Executed(u, "score")
      /\ pc[u] = "END" => Last(trace[u]) = "drop"

C10_Witness ==
  /\ pc[1] = "END"
  /\ Last(trace[1]) = "drop"
  /\ state[1].classification # None
  /\ state[1].classification[1].category = "none"
  /\ state[1].classification[1].confidence = Float(95)

\* C6: main writes exactly one record per unit, in input order, each with
\* the keep, errors, classification, scoring and signal_record of the unit's
\* final state; a unit whose traversal raised gets an error record with
\* keep false, and the loop goes on to every later unit.
C6_OneRecordPerUnitInOrder ==
  /\ idx \in 1..(Len(chunks) + 1)
  /\ Len(eval_file) = idx - 1
  /\ \A k \in 1..Len(eval_file) :
       /\ eval_file[k].chunk_id = chunks[k].chunk_id
       /\ pc[k] \in {"END", "RAISED"}
       /\ pc[k] = "END" =>
            /\ eval_file[k].keep = state[k].keep
            /\ eval_file[k].errors = state[k].errors
            /\ eval_file[k].classification = state[k].classification
            /\ eval_file[k].scoring = state[k].scoring
            /\ eval_file[k].signal_record = state[k].signal_record
       /\ pc[k] = "RAISED" =>
            /\ ~eval_file[k].keep
            /\ eval_file[k].errors # <<>>
            /\ eval_file[k].signal_record = None
  /\ idx <= Len(chunks) => ENABLED BatchNext

C6_Witness ==
  /\ idx = Len(chunks) + 1
  /\ Len(eval_file) = Len(chunks)
  /\ pc[1] = "RAISED"
  /\ pc[2] = "END"
  /\ eval_file[2].keep

\* C7: with the stage steps of the units interleaved in any order, each
\* unit ends in the terminal stage, and with the keep, errors,
\* classification and scoring, that its own traversal alone gives on the
\* same answers of the model: no unit's outcome depends on another's state.
C7_InterleavingKeepsOutcomes ==
  \A u \in Units :
    pc[u] \in {"END", "RAISED"} =>
      LET alone == evaluate_chunk(chunks[u], cresp[u], sresp[u]) IN
      /\ state[u].chunk = chunks[u]
      /\ state[u].errors = alone.final.errors
      /\ state[u].classification = alone.final.classification
      /\ state[u].scoring = alone.final.scoring
      /\ IF pc[u] = "RAISED"
           THEN alone.terminal = "RAISED" /\ ~state[u].keep
           ELSE /\ Last(trace[u]) = alone.terminal
                /\ state[u].keep = (alone.terminal = "normalize")

C7_Witness ==
  /\ \A u \in Units : pc[u] = "END"
  /\ trace[1] = <<"classify", "validate_evidence", "error_handler">>
  /\ Last(trace[2]) = "normalize"
  /\ state[1].errors # <<>>
  /\ state[2].errors = <<>>

\* C11: a unit that reaches the final router without errors and with
\* recommended_next_step "reach_out_now" goes to normalize and is kept,
\* whatever its opportunity_score, also below SCORE_THRESHOLD.
C11_ReachOutNowOverride ==
  \A u \in Units :
    LET s == state[u] IN
    (s.errors = <<>> /\ s.scoring # None
       /\ s.scoring[1].recommended_next_step = "reach_out_now") =>
      /\ final_decision_router(s) = "normalize"
      /\ Last(trace[u]) = "score" => pc[u] = "normalize"
      /\ ~Executed(u, "drop") /\ ~Executed(u, "error_handler")
      /\ pc[u] = "END" => (s.keep /\ Last(trace[u]) = "normalize")

C11_Witness ==
  /\ pc[1] = "END"
  /\ state[1].keep
  /\ state[1].scoring[1].opportunity_score = 10
  /\ state[1].scoring[1].recommended_next_step = "reach_out_now"

\* C12: in every reachable state keep = true implies that signal_record is
\* present and that the classification's category is not "none".
C12_KeepImpliesRecordAndCategory ==
  \A u \in Units :
    state[u].keep =>
      /\ state[u].signal_record # None
      /\ state[u].classification # None
      /\ state[u].classification[1].category # "none"
      /\ state[u].signal_record[1].category # "none"

C12_Witness ==
  /\ state[1].keep
  /\ state[1].signal_record # None
  /\ state[1].signal_record[1].category = "pilot_evaluation"

\* C13: at END errors is non-empty iff the terminal node was
\* error_handler: no traversal with an error ends at normalize or drop, and
\* error_handler is never reached with errors empty.
C13_ErrorsIffErrorHandler ==
  \A u \in Units :
    /\ pc[u] = "END" =>
         (state[u].errors # <<>> <=> Last(trace[u]) = "error_handler")
    /\ (pc[u] = "error_handler" \/ Executed(u, "error_handler")) =>
         state[u].errors # <<>>
    /\ (pc[u] \in {"normalize", "drop"} \/ Executed(u, "normalize") \/ Executed(u, "drop")) =>
         state[u].errors = <<>>

C13_Witness ==
  /\ pc[1] = "END"
  /\ trace[1] = <<"classify", "validate_evidence", "score", "error_handler">>
  /\ state[1].errors # <<>>
  /\ state[1].errors[1][1] = "score_node"

\* the policy conditions of a drop, read off a final state
PolicyDrop(s) ==
  /\ s.classification # None
  /\ \/ s.classification[1].category = "none"
     \/ /\ ~s.classification[1].confidence.nan
        /\ s.classification[1].confidence.c < CONFIDENCE_THRESHOLD
     \/ /\ s.scoring # None
        /\ s.scoring[1].opportunity_score < SCORE_THRESHOLD
        /\ s.scoring[1].recommended_next_step # "reach_out_now"

\* C14: a traversal ends at drop exactly when no error was recorded and a
\* policy condition holds (category "none"; confidence below
\* CONFIDENCE_THRESHOLD; a scoring with opportunity_score below
\* SCORE_THRESHOLD and a next step other than "reach_out_now"); in that
\* final state errors is empty, keep is false and signal_record is absent.
C14_DropIffPolicy ==
  \A u \in Units :
    pc[u] = "END" =>
      /\ Last(trace[u]) = "drop" <=> (state[u].errors = <<>> /\ PolicyDrop(state[u]))
      /\ Last(trace[u]) = "drop" =>
           /\ state[u].errors = <<>>
           /\ ~state[u].keep
           /\ state[u].signal_record = None

C14_Witness ==
  /\ pc[1] = "END"
  /\ trace[1] = <<"classify", "validate_evidence", "score", "drop">>
  /\ state[1].scoring[1].opportunity_score = 49
  /\ state[1].scoring[1].recommended_next_step = "call_later"

\* C15: when classify succeeds and the evidence_snippet it returned is not
\* a verbatim substring of the chunk's text, an error is appended and the
\* traversal ends at error_handler, not at drop and without score, also for
\* category "none" and for a confidence below the threshold (stated as the
\* claim has it; a snippet that is no string is not a substring either, and
\* the code raises on it).
C15_GroundingFailureEndsAtErrorHandler ==
  \A u \in Units :
    LET s == state[u] IN
    (s.classification # None
       /\ ~(/\ s.classification[1].evidence_snippet.t = "str"
            /\ LiteralSubstring(s.classification[1].evidence_snippet.s, s.chunk.text))
       /\ Executed(u, "validate_evidence")) =>
      /\ s.errors # <<>>
      /\ pc[u] \in {"error_handler", "END"}
      /\ ~Executed(u, "score") /\ ~Executed(u, "drop")

\* C16: in every traversal each node runs at most once, the graph has no
\* cycle (every edge leads to a later rank), and a terminal node is the
\* fourth node executed at the latest.
Rank(n) ==
  CASE n = "START" -> 0
    [] n = "classify" -> 1
    [] n = "validate_evidence" -> 2
    [] n = "score" -> 3
    [] n \in TerminalNodes -> 4
    [] OTHER -> 5

C16_AtMostOnceNoCycleFourStages ==
  \A u \in Units :
    /\ \A i, j \in DOMAIN trace[u] : trace[u][i] = trace[u][j] => i = j
    /\ \A i, j \in DOMAIN trace[u] : i < j => Rank(trace[u][i]) < Rank(trace[u][j])
    /\ trace[u] # <<>> => Rank(Last(trace[u])) < Rank(pc[u])
    /\ Len(trace[u]) <= 4
    /\ \A k \in DOMAIN trace[u] : trace[u][k] \in TerminalNodes => k <= 4

C16_Witness ==
  /\ pc[1] = "END"
  /\ Len(trace[1]) = 4
  /\ trace[1][4] = "normalize"

\* the node sequences a traversal may run
StageOrders ==
  {<<"classify", "validate_evidence", "score", "normalize">>,
   <<"classify", "validate_evidence", "score", "drop">>,
   <<"classify", "validate_evidence", "score", "error_handler">>,
   <<"classify", "validate_evidence", "drop">>,
   <<"classify", "validate_evidence", "error_handler">>}

\* C17: the nodes of a traversal run in the order classify,
\* validate_evidence, score, normalize; drop and error_handler are only
\* ever last; validate_evidence runs in every traversal, also after a
\* failed classify.
C17_StagesStrictlyOrdered ==
  \A u \in Units :
    /\ \E o \in StageOrders :
         /\ Len(trace[u]) <= Len(o)
         /\ trace[u] = SubSeq(o, 1, Len(trace[u]))
    /\ pc[u] = "END" => trace[u] \in StageOrders
    /\ (pc[u] \in {"END", "RAISED"} \/ Len(trace[u]) >= 2) =>
         Executed(u, "validate_evidence")

C17_Witness ==
  /\ pc[1] = "END"
  /\ trace[1] = <<"classify", "validate_evidence", "error_handler">>
  /\ cresp[1] # None
  /\ ~cresp[1][1].ok

\* C18: in whatever state a traversal is interrupted, signal_record is
\* absent unless normalize has run; a signal_record that is present is
\* complete: classification and scoring are present and every field of the
\* record is the field of the chunk, the classification or the scoring.
C18_SignalRecordOnlyComplete ==
  \A u \in Units :
    LET s == state[u] IN
    /\ ~Executed(u, "normalize") => s.signal_record = None
    /\ s.signal_record # None =>
         /\ s.classification # None
         /\ s.scoring # None
         /\ LET r == s.signal_record[1]
                c == s.classification[1]
                g == s.scoring[1]
            IN /\ r.chunk_id = s.chunk.chunk_id
               /\ r.artifact_id = s.chunk.artifact_id
               /\ r.district = s.chunk.district
               /\ r.meeting_date = s.chunk.meeting_date
               /\ r.source_url = s.chunk.source_url
               /\ r.board_page_url = s.chunk.board_page_url
               /\ r.category = c.category
               /\ r.confidence = c.confidence
               /\ r.evidence_snippet = c.evidence_snippet
               /\ r.rationale = c.rationale
               /\ r.opportunity_score = g.opportunity_score
               /\ r.summary = g.summary
               /\ r.recommended_next_step = g.recommended_next_step

C18_Witness ==
  /\ pc[1] = "END"
  /\ state[1].signal_record # None
  /\ state[1].signal_record[1].meeting_date = Some("2026-01-15")
  /\ state[1].signal_record[1].generated_at = "t2"

\* a signal_record without its generated_at
WithoutGeneratedAt(rec) ==
  IF rec = None THEN None
  ELSE Some([k \in (DOMAIN rec[1]) \ {"generated_at"} |-> rec[1][k]])

\* C19: a second traversal of the same unit, the model answering as it did
\* the first time, ends in the same terminal node with the same keep,
\* errors, classification, scoring and signal_record (generated_at aside):
\* nothing the first traversal left behind reaches the second.
C19_RerunGivesSameOutcome ==
  \A u \in Units :
    (first_run[u] # None /\ pc[u] \in {"END", "RAISED"}) =>
      LET f == first_run[u][1] IN
      /\ (IF pc[u] = "RAISED" THEN "RAISED" ELSE Last(trace[u])) = f.terminal
      /\ state[u].keep = f.final.keep
      /\ state[u].errors = f.final.errors
      /\ state[u].classification = f.final.classification
      /\ state[u].scoring = f.final.scoring
      /\ WithoutGeneratedAt(state[u].signal_record)
           = WithoutGeneratedAt(f.final.signal_record)

C19_Witness ==
  /\ first_run[1] # None
  /\ pc[1] = "END"
  /\ state[1].keep
  /\ first_run[1][1].final.signal_record # None
  /\ state[1].signal_record[1].generated_at
       # first_run[1][1].final.signal_record[1].generated_at

\* C20: every classification written into the state has a category of the
\* closed set (the nine intent categories or "none") and a confidence in
\* [0, 1] (stated as the claim has it; classify_node checks neither).
C20_ClassificationInClosedSet ==
  \A u \in Units :
    state[u].classification # None =>
      /\ state[u].classification[1].category \in IntentCategory
      /\ ~state[u].classification[1].confidence.nan
      /\ state[u].classification[1].confidence.c \in 0..100

\* C21: every scoring written into the state has a recommended_next_step of
\* the closed set {reach_out_now, research_more, monitor} (stated as the
\* claim has it; score_node does not check the value).
C21_NextStepInClosedSet ==
  \A u \in Units :
    state[u].scoring # None =>
      state[u].scoring[1].recommended_next_step \in NextStep

\* the position of node n in unit u's traversal
IndexOf(u, n) == CHOOSE i \in DOMAIN trace[u] : trace[u][i] = n

\* the positions of unit u's traversal whose update holds key k
WritesOf(u, k) == {i \in DOMAIN writes[u] : k \in writes[u][i]}

\* C24 as stated: keep is written exactly once per traversal and only by a
\* terminal node; evidence validation never writes it.
C24_KeepWrittenOnceByTerminal ==
  \A u \in Units :
    /\ \A i \in WritesOf(u, "keep") : trace[u][i] \in TerminalNodes
    /\ pc[u] = "END" => Cardinality(WritesOf(u, "keep")) = 1

\* C24 amended: keep is written by the terminal node of every traversal
\* and, besides, by evidence validation exactly when it appends an error
\* (it writes keep = false with the error); classify and score never write
\* keep, and keep is true only after normalize.
C24_KeepWrittenByTerminalOrFailedValidation ==
  \A u \in Units :
    /\ \A i \in WritesOf(u, "keep") :
         trace[u][i] \in TerminalNodes \cup {"validate_evidence"}
    /\ \A i \in DOMAIN writes[u] :
         /\ trace[u][i] = "validate_evidence" =>
              ("keep" \in writes[u][i] <=> "errors" \in writes[u][i])
         /\ trace[u][i] \in TerminalNodes => "keep" \in writes[u][i]
    /\ state[u].keep => Executed(u, "normalize")
    /\ pc[u] = "END" =>
         Cardinality({i \in WritesOf(u, "keep") : trace[u][i] \in TerminalNodes}) = 1

C24_Witness ==
  /\ pc[1] = "END"
  /\ Executed(1, "validate_evidence")
  /\ "keep" \in writes[1][IndexOf(1, "validate_evidence")]
  /\ Cardinality(WritesOf(1, "keep")) = 2
  /\ state[1].classification # None

\* C25: no step changes a field an earlier node wrote: the chunk never
\* changes, a present classification and a present scoring stay as they
\* are, and a validation that appends no error changes no field.
C25_EarlierFieldsKept ==
  [][\A u \in Units :
       /\ state'[u].chunk = state[u].chunk
       /\ state[u].classification # None =>
            state'[u].classification = state[u].classification
       /\ state[u].scoring # None => state'[u].scoring = state[u].scoring
       /\ (pc[u] = "validate_evidence" /\ pc'[u] # "validate_evidence"
             /\ state'[u].errors = state[u].errors) =>
            state'[u] = state[u]]_vars

C25_Witness ==
  /\ pc[1] = "END"
  /\ trace[1] = <<"classify", "validate_evidence", "score", "normalize">>
  /\ writes[1][2] = {}
  /\ state[1].classification # None
  /\ state[1].scoring # None

\* q is a prefix of r
IsPrefix(q, r) == Len(q) <= Len(r) /\ q = SubSeq(r, 1, Len(q))

\* C26: errors is append-only: every step leaves the previous errors list
\* as a prefix of the new one.
C26_ErrorsAppendOnly ==
  [][\A u \in Units : IsPrefix(state[u].errors, state'[u].errors)]_vars

C26_Witness ==
  /\ pc[1] = "END"
  /\ Len(state[1].errors) = 2
  /\ state[1].errors[1][1] = "classify_node"
  /\ state[1].errors[2] = Error("", "No classification to validate")

\* C28: score runs only on an error-free state whose classification is
\* present, has its evidence_snippet in the chunk's text, a category other
\* than "none" and a confidence of at least CONFIDENCE_THRESHOLD; a scoring
\* is present only with such a classification.
C28_ScoreOnlyOnValidatedClassification ==
  \A u \in Units :
    (pc[u] = "score" \/ Executed(u, "score") \/ state[u].scoring # None) =>
      /\ state[u].classification # None
      /\ state[u].classification[1].evidence_snippet.t = "str"
      /\ IsSubstring(state[u].classification[1].evidence_snippet.s, state[u].chunk.text)
      /\ state[u].classification[1].category # "none"
      /\ ~state[u].classification[1].confidence.nan
      /\ state[u].classification[1].confidence.c >= CONFIDENCE_THRESHOLD
      /\ pc[u] = "score" => state[u].errors = <<>>

\* the failures of a score answer the claim names
ScoreFails(r) ==
  \/ ~r.ok
  \/ /\ r.isobj
     /\ \/ "opportunity_score" \notin r.has
        \/ "summary" \notin r.has
        \/ "recommended_next_step" \notin r.has
        \/ PyIntRaises(r.opportunity_score)

\* C29: a failed score appends one score_node error, writes nothing else
\* (no scoring, no keep), leaves the classification as classify wrote it,
\* and the traversal ends at error_handler with keep false and no
\* signal_record; a score that appends no error writes scoring only.
C29_ScoreFailureEndsAtErrorHandler ==
  \A u \in Units :
    Executed(u, "score") =>
      LET i == IndexOf(u, "score")
          r == sresp[u][1] IN
      /\ ScoreFails(r) =>
           /\ writes[u][i] = {"errors"}
           /\ Len(state[u].errors) = 1
           /\ state[u].errors[1][1] = "score_node"
           /\ state[u].scoring = None
           /\ ~state[u].keep
           /\ state[u].signal_record = None
           /\ state[u].classification
                = classify_node(initial_state(chunks[u]), cresp[u][1]).classification
           /\ pc[u] \in {"error_handler", "END"}
           /\ pc[u] = "END" => Last(trace[u]) = "error_handler"
      /\ state[u].errors = <<>> =>
           /\ writes[u][i] = {"scoring"}
           /\ state[u].scoring # None

C29_Witness ==
  /\ pc[1] = "END"
  /\ Executed(1, "score")
  /\ sresp[1][1].ok
  /\ "summary" \notin sresp[1][1].has
  /\ Last(trace[1]) = "error_handler"

\* a score answer that is complete but for sub-fields of score_breakdown,
\* or for score_breakdown itself
LacksBreakdown(r) ==
  /\ r.ok /\ r.isobj
  /\ {"opportunity_score", "summary", "recommended_next_step"} \subseteq r.has
  /\ ~PyIntRaises(r.opportunity_score)
  /\ \/ "score_breakdown" \notin r.has
     \/ /\ r.score_breakdown.isobj
        /\ \E n \in BreakdownNames : r.score_breakdown.sub[n] = None
        /\ \A n \in BreakdownNames :
             r.score_breakdown.sub[n] # None => ~PyIntRaises(r.score_breakdown.sub[n][1])

\* C30: a score answer lacking sub-fields of score_breakdown, or the whole
\* of it, is no error: the scoring is written with 0 for every missing
\* sub-score, and the route taken after score is normalize when
\* recommended_next_step is "reach_out_now" or opportunity_score is at least
\* SCORE_THRESHOLD and drop otherwise, whatever the breakdown holds.
C30_MissingBreakdownDefaultsToZero ==
  \A u \in Units :
    (Executed(u, "score") /\ LacksBreakdown(sresp[u][1])) =>
      LET r == sresp[u][1]
          sc == state[u].scoring IN
      /\ state[u].errors = <<>>
      /\ sc # None
      /\ \A n \in BreakdownNames :
           ("score_breakdown" \notin r.has \/ r.score_breakdown.sub[n] = None) =>
             sc[1].score_breakdown[n] = 0
      /\ Last(trace[u]) = "score" =>
           pc[u] = IF \/ sc[1].recommended_next_step = "reach_out_now"
                      \/ sc[1].opportunity_score >= SCORE_THRESHOLD
                     THEN "normalize" ELSE "drop"

C30_Witness ==
  /\ pc[1] = "END"
  /\ Last(trace[1]) = "normalize"
  /\ "score_breakdown" \in sresp[1][1].has
  /\ sresp[1][1].score_breakdown.sub["intent_strength"] # None
  /\ sresp[1][1].score_breakdown.sub["time_window"] = None
  /\ state[1].scoring[1].score_breakdown["time_window"] = 0
  /\ state[1].scoring[1].score_breakdown["intent_strength"] # 0

\* C27: in both routers an error comes first: decision_router returns
\* "error_handler" when errors is non-empty or classification is absent,
\* and final_decision_router returns "error_handler" when errors is
\* non-empty or scoring is absent, whatever the other fields hold.
C27_ErrorTakesPrecedence ==
  \A u \in Units :
    /\ (trace[u] = <<"decision_router">>
          /\ (state[u].errors # <<>> \/ state[u].classification = None)) =>
         pc[u] = "error_handler"
    /\ (trace[u] = <<"final_decision_router">>
          /\ (state[u].errors # <<>> \/ state[u].scoring = None)) =>
         pc[u] = "error_handler"

C27_Witness ==
  /\ trace[1] = <<"final_decision_router">>
  /\ pc[1] = "error_handler"
  /\ state[1].errors # <<>>
  /\ state[1].scoring # None
  /\ state[1].scoring[1].opportunity_score >= SCORE_THRESHOLD
  /\ state[1].scoring[1].recommended_next_step = "reach_out_now"
  /\ state[1].classification # None
  /\ state[1].classification[1].category = "pilot_evaluation"

\* C22: deduplicate_signals returns one signal for each distinct key
\* (artifact_id, category, first DEDUP_PREFIX characters of evidence_snippet)
\* of its input and no other: every returned signal is in the input, no two
\* returned signals share a key, every key of the input is returned, and the
\* returned signal has the greatest opportunity_score of its key's group.
C22_OnePerKeyWithMaxScore ==
  deduped # None =>
    LET out == deduped[1] IN
    /\ \A n \in DOMAIN out : \E j \in DOMAIN signals : out[n] = signals[j]
    /\ \A n, m \in DOMAIN out : dedup_key(out[n]) = dedup_key(out[m]) => n = m
    /\ \A j \in DOMAIN signals :
         \E n \in DOMAIN out :
           /\ dedup_key(out[n]) = dedup_key(signals[j])
           /\ Get(signals[j].opportunity_score, 0) <= Get(out[n].opportunity_score, 0)

C22_Witness ==
  /\ deduped # None
  /\ Len(signals) = MaxSignals
  /\ signals[1].chunk_id = 1
  /\ signals[2].chunk_id = 2
  /\ signals[3].chunk_id = 4
  /\ signals[1].evidence_snippet # signals[2].evidence_snippet
  /\ Len(deduped[1]) = 2
  /\ deduped[1][1].chunk_id = 2

\* C23: a response that wraps a payload in a markdown fence (with or without
\* the json tag, with or without text around it) is parsed to what the
\* payload alone is parsed to, and that is the payload's own JSON value; a
\* payload that is no JSON makes the call fail, and classify_node records
\* the failure as its error.
C23_FenceWrappingIsTransparent ==
  \A p \in Payloads, w \in FencedWrappings \cup {"bare"} :
    (content = Wrap(w, p) /\ parsed # None) =>
      /\ parsed[1] = invoke_llm_json(p)
      /\ parsed[1] = JsonLoads(p)
      /\ (~JsonLoads(p).ok /\ Executed(1, "classify")) =>
           state[1].errors
             = <<Error("classify_node", "LLM response is not valid JSON")>>

\* 1 if unit u's traversal has executed node n, else 0
Ran(u, n) == IF Executed(u, n) THEN 1 ELSE 0

\* C31: a traversal calls the external model at most twice: once in
\* classify, once more in score if score runs, and never again; a traversal
\* that ended without score made exactly one call, and a failed call ends
\* the traversal at error_handler instead of being repeated.
C31_AtMostTwoModelCalls ==
  \A u \in Units :
    /\ llm_calls[u] <= 2
    /\ llm_calls[u] = Ran(u, "classify") + Ran(u, "score")
    /\ pc[u] \in {"END", "RAISED"} =>
         /\ llm_calls[u] >= 1
         /\ ~Executed(u, "score") => llm_calls[u] = 1
    /\ pc[u] = "END" =>
         /\ (~cresp[u][1].ok) => trace[u] = <<"classify", "validate_evidence", "error_handler">>
         /\ (sresp[u] # None /\ ~sresp[u][1].ok) => Last(trace[u]) = "error_handler"

C31_Witness ==
  /\ pc[1] = "END"
  /\ llm_calls[1] = 2
  /\ sresp[1] # None
  /\ ~sresp[1][1].ok
  /\ sresp[1][1].err = "LLM response is not valid JSON"
  /\ Last(trace[1]) = "error_handler"

\* C33: every signal_record belongs to a unit whose confidence is at least
\* CONFIDENCE_THRESHOLD and whose scoring has opportunity_score >=
\* SCORE_THRESHOLD or recommended_next_step "reach_out_now"; no unit below
\* the confidence threshold is kept.
C33_KeptMeetsBothThresholds ==
  \A u \in Units :
    (state[u].signal_record # None \/ state[u].keep) =>
      /\ state[u].classification # None
      /\ ~state[u].classification[1].confidence.nan
      /\ state[u].classification[1].confidence.c >= CONFIDENCE_THRESHOLD
      /\ state[u].scoring # None
      /\ \/ state[u].scoring[1].opportunity_score >= SCORE_THRESHOLD
         \/ state[u].scoring[1].recommended_next_step = "reach_out_now"

\* C34: an empty evidence_snippet passes evidence validation whatever the
\* text is, the empty text included: validation returns no update and
\* records no error, so such a unit can be scored and kept.
C34_EmptyEvidencePasses ==
  \A u \in Units :
    (Executed(u, "validate_evidence") /\ state[u].classification # None
       /\ state[u].classification[1].evidence_snippet = JStr(<<>>)) =>
      /\ pc[u] # "RAISED"
      /\ writes[u][IndexOf(u, "validate_evidence")] = {}
      /\ \A i \in DOMAIN state[u].errors : state[u].errors[i][1] = "score_node"
      /\ Len(trace[u]) = 2 => pc[u] \in {"score", "drop"}

C34_Witness ==
  /\ pc[1] = "END"
  /\ state[1].keep
  /\ state[1].chunk.text = <<>>
  /\ state[1].classification[1].evidence_snippet = JStr(<<>>)
  /\ state[1].signal_record[1].evidence_snippet = JStr(<<>>)

\* C32: should_keep_signal, given the thresholds of the graph, returns true
\* exactly when, on the error-free state holding the same classification
\* and scoring, decision_router returns "score" and final_decision_router
\* returns "normalize".
C32_ShouldKeepAgreesWithRouters ==
  should_keep # None =>
    (should_keep[1] <=> (/\ decision_router(state[1]) = "score"
                          /\ final_decision_router(state[1]) = "normalize"))

C32_Witness ==
  /\ should_keep = Some(TRUE)
  /\ state[1].scoring[1].opportunity_score < SCORE_THRESHOLD
  /\ state[1].scoring[1].recommended_next_step = "reach_out_now"
  /\ state[1].classification[1].confidence = Float(CONFIDENCE_THRESHOLD)

\* C37: chunk_text terminates with windows that end at the last token; so
\* once a window has reached the last token of the text the loop is over
\* and chunk_text has returned
C37_LoopOverAtLastToken ==
  chunker.pc = "loop" =>
    \A i \in DOMAIN chunker.chunks : chunker.chunks[i][2] < chunker.total_tokens

\* the scripts run_weekly has run so far, in order
ScriptsRun == [i \in DOMAIN weekly.steps |-> weekly.steps[i].script]

\* the scripts of a whole pipeline, in the fixed order
PipelineOrder ==
  (IF weekly.skip_discover THEN <<>> ELSE <<"discover_board_pages.py">>)
    \o <<"fetch_artifacts.py", "evaluate_pdfs.py", "export_signals.py">>

StepFailed == \E i \in DOMAIN weekly.steps : ~weekly.steps[i].success

\* C38: run_weekly runs discover (unless --skip-discover), fetch, evaluate,
\* export in that order; a failed step does not stop the later ones, only a
\* missing artifacts file after fetch ends the run before evaluate; the exit
\* status is non-zero iff a step failed or the artifacts file was missing
C38_FixedOrderAndExitStatus ==
  /\ IsPrefix(ScriptsRun, PipelineOrder)
  /\ weekly.pc = "exited" =>
       /\ weekly.exit_code # None
       /\ ScriptsRun =
            IF weekly.artifacts_csv THEN PipelineOrder
            ELSE SubSeq(PipelineOrder, 1, Len(PipelineOrder) - 2)
       /\ weekly.exit_code[1] # 0 <=> (StepFailed \/ ~weekly.artifacts_csv)

\* a run whose fetch failed still evaluated and exported, and exited non-zero
C38_Witness ==
  /\ weekly.pc = "exited"
  /\ weekly.exit_code = Some(1)
  /\ \E i \in DOMAIN weekly.steps :
       /\ weekly.steps[i].script = "fetch_artifacts.py"
       /\ ~weekly.steps[i].success
  /\ ScriptsRun = PipelineOrder
  /\ ~weekly.skip_discover

\* the positions of the records of chunk id in the evaluations file
RecordsOf(id) == {i \in DOMAIN eval_file : eval_file[i].chunk_id = id}

\* the chunks a run covers: all of them, or the first run.limit under --limit
Covered ==
  IF run.limit > 0
    THEN {run.chunks_file[i] : i \in 1..Min(run.limit, Len(run.chunks_file))}
    ELSE {run.chunks_file[i] : i \in DOMAIN run.chunks_file}

\* no chunk being evaluated or still to be evaluated in the running run has
\* a record, and no chunk ever has two
NeverEvaluatedAgain ==
  /\ \A u \in Units :
       (run.status = "running" /\ u >= idx) => RecordsOf(chunks[u].chunk_id) = {}
  /\ \A i \in DOMAIN run.chunks_file :
       Cardinality(RecordsOf(run.chunks_file[i].chunk_id)) <= 1

\* C35 as stated: across runs without --reprocess no chunk with a record is
\* evaluated again, and after a completed run every chunk has exactly one
\* record
C35_EveryChunkOnceAfterCompletedRun ==
  /\ NeverEvaluatedAgain
  /\ run.status = "completed" =>
       \A i \in DOMAIN run.chunks_file :
         Cardinality(RecordsOf(run.chunks_file[i].chunk_id)) = 1

\* C35 amended: across runs without --reprocess no chunk with a record is
\* evaluated again, and after a completed run every chunk the run covers
\* (all chunks, or the first N under --limit N) has exactly one record
C35_EveryCoveredChunkOnceAfterCompletedRun ==
  /\ NeverEvaluatedAgain
  /\ run.status = "completed" =>
       \A c \in Covered : Cardinality(RecordsOf(c.chunk_id)) = 1

\* a run interrupted after one record, then a run without --limit that
\* evaluated the other chunk only and completed
C35_Witness ==
  /\ run.status = "completed"
  /\ run.prev = "interrupted"
  /\ run.limit = 0
  /\ run.before = 1
  /\ Len(chunks) = NumChunks - 1
  /\ Len(eval_file) = NumChunks

====
